---- MODULE Spec2Model ----
(***************************************************************************)
(* A model of nr-cif-rs: the schedule application engine of                *)
(* src/src/schedule.rs (ScheduleDatabase::apply_records and the handlers   *)
(* it dispatches to).                                                      *)
(*                                                                         *)
(* Strings are sequences of one-character strings, so that trimming,       *)
(* slicing and parsing are computed and not assumed.  An Option<T> is a    *)
(* sequence of length 0 (None) or 1 (Some).  A HashMap is a function whose *)
(* DOMAIN is its key set.                                                  *)
(***************************************************************************)
EXTENDS Integers, Sequences, FiniteSets, TLC

(***************************************************************************)
(* Bounds of the exploration.                                              *)
(***************************************************************************)
\* records consumed by one apply_records call
MaxRecords == 4

(***************************************************************************)
(* Strings.                                                                *)
(***************************************************************************)
DigitChars == <<"0", "1", "2", "3", "4", "5", "6", "7", "8", "9">>

IsDigit(c) == \E i \in 1..Len(DigitChars) : DigitChars[i] = c

DigitVal(c) == (CHOOSE i \in 1..Len(DigitChars) : DigitChars[i] = c) - 1

\* str::trim_start: drop leading white space
RECURSIVE TrimStart(_)
TrimStart(s) ==
    IF s # <<>> /\ Head(s) = " " THEN TrimStart(Tail(s)) ELSE s

\* str::trim_end: drop trailing white space
RECURSIVE TrimEnd(_)
TrimEnd(s) ==
    IF s # <<>> /\ s[Len(s)] = " " THEN TrimEnd(SubSeq(s, 1, Len(s) - 1)) ELSE s

\* str::trim
Trim(s) == TrimEnd(TrimStart(s))

\* the half-open byte slice &s[a..b] of Rust (0-based)
Slice(s, a, b) == SubSeq(s, a + 1, b)

\* the value of a sequence of digits in a radix
RECURSIVE RadixValue(_, _)
RadixValue(s, radix) ==
    IF s = <<>> THEN 0
    ELSE radix * RadixValue(SubSeq(s, 1, Len(s) - 1), radix) + DigitVal(s[Len(s)])

AllDigitsOf(s, radix) == \A i \in 1..Len(s) : IsDigit(s[i]) /\ DigitVal(s[i]) < radix

(***************************************************************************)
(* Results of fallible functions: Result<T, ScheduleApplyError>.           *)
(* An error keeps its variant and its payload (a string).                  *)
(***************************************************************************)
Ok(v) == [ok |-> TRUE, val |-> v]

Err(variant, payload) == [ok |-> FALSE, err |-> [variant |-> variant, payload |-> payload]]

(***************************************************************************)
(* chrono: NaiveDate::parse_from_str and NaiveTime::parse_from_str with    *)
(* formats made of two-digit numeric items only.  Each numeric item skips  *)
(* leading white space and then takes one or two digits; input left over   *)
(* after the last item is an error; the fields are range-checked when the  *)
(* date or time is built.                                                  *)
(***************************************************************************)
\* the number of leading digits of s, at most width
RECURSIVE LeadingDigits(_, _)
LeadingDigits(s, width) ==
    IF width = 0 \/ s = <<>> \/ ~IsDigit(Head(s)) THEN 0
    ELSE 1 + LeadingDigits(Tail(s), width - 1)

\* a numeric item that begins with n digits of t: its value and the rest
TakeDigits(t, n) ==
    IF n = 0 THEN [ok |-> FALSE, val |-> 0, rest |-> t]
    ELSE [ok |-> TRUE, val |-> RadixValue(SubSeq(t, 1, n), 10),
          rest |-> SubSeq(t, n + 1, Len(t))]

ScanDigits(t) == TakeDigits(t, LeadingDigits(t, 2))

\* scan one numeric item of at most two digits, after leading white space
ScanNumeric(s) == ScanDigits(TrimStart(s))

\* the items scanned so far and the scan of what the last of them left
ScanNext(items) == Append(items, ScanNumeric(items[Len(items)].rest))

ScanFirst(s) == <<ScanNumeric(s)>>

\* every item was there, and nothing is left over after the last
ScanComplete(items) ==
    /\ \A i \in 1..Len(items) : items[i].ok
    /\ items[Len(items)].rest = <<>>

IsLeapYear(y) == (y % 4 = 0 /\ y % 100 # 0) \/ y % 400 = 0

DaysInMonth(y, m) ==
    IF m = 2 THEN (IF IsLeapYear(y) THEN 29 ELSE 28)
    ELSE IF m \in {4, 6, 9, 11} THEN 30 ELSE 31

\* a two-digit year alone: 00..69 are 2000..2069, 70..99 are 1970..1999
ResolveYear(yy) == IF yy < 70 THEN 2000 + yy ELSE 1900 + yy

ValidYMD(y, m, d) == m \in 1..12 /\ d >= 1 /\ d <= DaysInMonth(y, m)

\* the date of a day, a month and a two-digit year, when there is such a date
DateOf(ok, dd, mm, yy) ==
    IF ok /\ ValidYMD(ResolveYear(yy), mm, dd)
    THEN <<[year |-> ResolveYear(yy), month |-> mm, day |-> dd]>>
    ELSE <<>>

DateOfDMY(items) ==
    DateOf(ScanComplete(items), items[1].val, items[2].val, items[3].val)

DateOfYMD(items) ==
    DateOf(ScanComplete(items), items[3].val, items[2].val, items[1].val)

\* NaiveDate::parse_from_str(s, "%d%m%y"); <<>> when it fails
ParseDateDMY(s) == DateOfDMY(ScanNext(ScanNext(ScanFirst(s))))

\* NaiveDate::parse_from_str(s, "%y%m%d"); <<>> when it fails
ParseDateYMD(s) == DateOfYMD(ScanNext(ScanNext(ScanFirst(s))))

TimeOfHM(items) ==
    IF ScanComplete(items) /\ items[1].val <= 23 /\ items[2].val <= 59
    THEN <<[hour |-> items[1].val, minute |-> items[2].val]>>
    ELSE <<>>

\* NaiveTime::parse_from_str(s, "%H%M"); <<>> when it fails
ParseTimeHM(s) == TimeOfHM(ScanNext(ScanFirst(s)))

\* NaiveDate::MIN, NaiveDateTime::MIN
NaiveDateMIN == [year |-> -262143, month |-> 1, day |-> 1]

NaiveDateTimeMIN == [date |-> NaiveDateMIN, time |-> [hour |-> 0, minute |-> 0]]

(***************************************************************************)
(* HashMap operations.                                                     *)
(***************************************************************************)
EmptyMap == <<>>

MapInsert(m, k, v) == [x \in DOMAIN m \cup {k} |-> IF x = k THEN v ELSE m[x]]

MapRemove(m, k) ==
    IF DOMAIN m \ {k} = {} THEN EmptyMap ELSE [x \in DOMAIN m \ {k} |-> m[x]]

(***************************************************************************)
(* Integer parsing of the Rust standard library (str::parse::<uN>,         *)
(* uN::from_str_radix): an optional '+', then at least one digit of the    *)
(* radix, no white space, and the value must fit the type.                 *)
(***************************************************************************)
\* s without the sign it may begin with
Unsigned(s) == IF s # <<>> /\ Head(s) = "+" THEN Tail(s) ELSE s

ValueUpTo(n, max) == IF n <= max THEN <<n>> ELSE <<>>

DigitsValue(digits, radix, max) ==
    IF digits # <<>> /\ AllDigitsOf(digits, radix)
    THEN ValueUpTo(RadixValue(digits, radix), max)
    ELSE <<>>

\* <<n>> when s parses to n <= max, <<>> otherwise
ParseUnsigned(s, radix, max) == DigitsValue(Unsigned(s), radix, max)

U8Max == 255

U16Max == 65535

\* str::parse::<u32>, for strings of at most nine digits (each fits a u32)
DigitsValueU32(digits) ==
    IF digits # <<>> /\ Len(digits) <= 9 /\ AllDigitsOf(digits, 10)
    THEN <<RadixValue(digits, 10)>>
    ELSE <<>>

ParseU32(s) == DigitsValueU32(Unsigned(s))

(***************************************************************************)
(* JourneyTime::from_str (src/src/schedule.rs:822-852).  The two slices    *)
(* need a string of at least four characters, which every time field of a  *)
(* location record is.                                                     *)
(***************************************************************************)
JourneyTimeOf(s, hour, min) ==
    IF hour = <<>> \/ min = <<>> THEN Err("InvalidJourneyTime", s)
    ELSE IF Len(s) >= 5 /\ s[5] = "H"
         THEN Ok([hour |-> hour[1], minute |-> min[1], half |-> TRUE])
    ELSE IF Len(s) >= 5 /\ s[5] # " " THEN Err("InvalidJourneyTime", s)
    ELSE Ok([hour |-> hour[1], minute |-> min[1], half |-> FALSE])

JourneyTimeFromStr(s) ==
    JourneyTimeOf(s, ParseUnsigned(Slice(s, 0, 2), 10, U8Max),
                     ParseUnsigned(Slice(s, 2, 4), 10, U8Max))

(***************************************************************************)
(* Schedule::new (src/src/schedule.rs:550-576).                            *)
(***************************************************************************)
NewSchedule ==
    [train_uid |-> <<>>,
     runs_from |-> NaiveDateMIN,
     runs_to |-> NaiveDateMIN,
     days_run |-> 0,
     bank_holiday_running |-> "RunsNormally",
     atoc_code |-> <<>>,
     subject_to_performance_monitoring |-> FALSE,
     train_status |-> "PassengerAndParcels",
     train_category |-> "NotSpecified",
     headcode |-> <<>>,
     portion_id |-> " ",
     power_type |-> "Diesel",
     timing_load |-> [variant |-> "LoadInTonnes", n |-> 0],
     speed |-> 0,
     operating_characteristics |-> <<>>,
     seating_class |-> "NotSpecified",
     sleepers |-> "NotSpecified",
     reservations |-> "Possible",
     catering |-> <<>>,
     stp_indicator |-> "PermanentAssociation",
     journey |-> <<>>]

(***************************************************************************)
(* The code tables of bs_record_to_schedule (src/src/schedule.rs:855-1127).*)
(* A table is a sequence of rows <<code, variant>>; a lookup yields        *)
(* <<variant>>, or <<>> for a code that is not in the table.               *)
(***************************************************************************)
Rows(table, code) == SelectSeq(table, LAMBDA row : row[1] = code)

FirstVariant(rows) == IF rows = <<>> THEN <<>> ELSE <<rows[1][2]>>

Lookup(table, code) == FirstVariant(Rows(table, code))

TrainStatusTable ==
    << <<" ", "NotSpecified">>, <<"B", "Bus">>, <<"F", "Freight">>,
       <<"P", "PassengerAndParcels">>, <<"S", "Ship">>, <<"T", "Trip">>,
       <<"1", "STPPassengerAndParcels">>, <<"2", "STPFreight">>,
       <<"3", "STPTrip">>, <<"4", "STPShip">>, <<"5", "STPBus">> >>

TrainCategoryTable ==
    << <<<<" ", " ">>, "NotSpecified">>,
       <<<<"O", "L">>, "LondonUnderground">>,
       <<<<"O", "U">>, "UnadvertisedOrdinaryPassenger">>,
       <<<<"O", "O">>, "OrdinaryPassenger">>,
       <<<<"O", "S">>, "StaffTrain">>,
       <<<<"O", "W">>, "Mixed">>,
       <<<<"X", "C">>, "ChannelTunnel">>,
       <<<<"X", "D">>, "Sleeper">>,
       <<<<"X", "I">>, "International">>,
       <<<<"X", "R">>, "Motorail">>,
       <<<<"X", "U">>, "UnadvertisedExpress">>,
       <<<<"X", "X">>, "ExpressPassenger">>,
       <<<<"X", "Z">>, "SleeperDomestic">>,
       <<<<"B", "R">>, "BusReplacementDueToEngineering">>,
       <<<<"B", "S">>, "BusWTTService">>,
       <<<<"S", "S">>, "Ship">>,
       <<<<"E", "E">>, "EmptyCoachingStock">>,
       <<<<"E", "L">>, "ECSLondonUnderground">>,
       <<<<"E", "S">>, "ECSAndStaff">>,
       <<<<"J", "J">>, "Postal">>,
       <<<<"P", "M">>, "PostOfficeControlledParcels">>,
       <<<<"P", "P">>, "Parcels">>,
       <<<<"P", "V">>, "EmptyNPCCS">>,
       <<<<"D", "D">>, "Departmental">>,
       <<<<"D", "H">>, "CivilEngineer">>,
       <<<<"D", "I">>, "MechanicalAndElectricalEngineer">>,
       <<<<"D", "Q">>, "Stores">>,
       <<<<"D", "T">>, "Test">>,
       <<<<"D", "Y">>, "SignalAndTelecommunicationsEngineer">>,
       <<<<"Z", "B">>, "LocomotiveAndBrakeVan">>,
       <<<<"Z", "Z">>, "LightLocomotive">>,
       <<<<"J", "2">>, "RfDAutomotiveComponents">>,
       <<<<"H", "2">>, "RfDAutomotiveVehicles">>,
       <<<<"J", "3">>, "RfDEdibleProducts">>,
       <<<<"J", "4">>, "RfDIndustrialMinerals">>,
       <<<<"J", "5">>, "RfDChemicals">>,
       <<<<"J", "6">>, "RfDBuildingMaterials">>,
       <<<<"J", "8">>, "RfDGeneralMerchandise">>,
       <<<<"H", "8">>, "RfDEuropean">>,
       <<<<"J", "9">>, "RfDFreightlinerContracts">>,
       <<<<"H", "9">>, "RfDFreightlinerOther">>,
       <<<<"A", "0">>, "CoalDistributive">>,
       <<<<"E", "0">>, "CoalElectricityMGR">>,
       <<<<"B", "0">>, "CoalOtherAndNuclear">>,
       <<<<"B", "1">>, "Metals">>,
       <<<<"B", "4">>, "Aggregates">>,
       <<<<"B", "5">>, "DomesticAndIndustrialWaste">>,
       <<<<"B", "6">>, "BuildingMaterials">>,
       <<<<"B", "7">>, "PetroleumProducts">>,
       <<<<"H", "0">>, "RfDEuropeanChannelTunnelMixed">>,
       <<<<"H", "1">>, "RfDEuropeanChannelTunnelIntermodal">>,
       <<<<"H", "3">>, "RfDEuropeanChannelTunnelAutomotive">>,
       <<<<"H", "4">>, "RfDEuropeanChannelTunnelContractServices">>,
       <<<<"H", "5">>, "RfDEuropeanChannelTunnelHaulmark">>,
       <<<<"H", "6">>, "RfDEuropeanChannelTunnelJointVenture">> >>

PowerTypeTable ==
    << <<<<>>, "NotSpecified">>,
       <<<<"D">>, "Diesel">>,
       <<<<"D", "E", "M">>, "DieselElectricMultipleUnit">>,
       <<<<"D", "M", "U">>, "DieselMechanicalMultipleUnit">>,
       <<<<"E">>, "Electric">>,
       <<<<"E", "D">>, "ElectroDiesel">>,
       <<<<"E", "M", "L">>, "EMUPlusLocomotive">>,
       <<<<"E", "M", "U">>, "ElectricMultipleUnit">>,
       <<<<"H", "S", "T">>, "HighSpeedTrain">> >>

DMUTimingLoadTable ==
    << <<<<>>, "NotSpecified">>,
       <<<<"6", "9">>, "Class17201721Or1722">>,
       <<<<"A">>, "Class141To144">>,
       <<<<"E">>, "Class158168170Or175">>,
       <<<<"N">>, "Class1650">>,
       <<<<"S">>, "Class150153155Or156">>,
       <<<<"T">>, "Class1651Or166">>,
       <<<<"V">>, "Class220Or221">>,
       <<<<"X">>, "Class159">>,
       <<<<"D", "1">>, "DMUPowerCarTrailer">>,
       <<<<"D", "2">>, "DMU2PowerCarsTrailer">>,
       <<<<"D", "3">>, "DMUPowerTwin">> >>

EMUTimingLoadTable ==
    << <<<<>>, "NotSpecified">>,
       <<<<"A", "T">>, "AcceleratedTimings">>,
       <<<<"E">>, "Class458">>,
       <<<<"0">>, "Class380">>,
       <<<<"5", "0", "6">>, "Class3501110MPH">> >>

OperatingCharacteristicTable ==
    << <<"B", "VacuumBraked">>, <<"C", "TimedAt100MPH">>,
       <<"D", "DOOCoachingStockTrains">>, <<"E", "ConveysMark4Coaches">>,
       <<"G", "GuardRequired">>, <<"M", "TimedAt110MPH">>,
       <<"P", "PushPullTrain">>, <<"Q", "RunsAsRequired">>,
       <<"R", "AirConditionedWithPASystem">>, <<"S", "SteamHeated">>,
       <<"Y", "RunsToTerminalsAsRequired">>,
       <<"Z", "MayConveyTrafficToSB1CGauge">> >>

SeatingClassTable ==
    << <<" ", "FirstAndStandard">>, <<"B", "FirstAndStandard">>,
       <<"S", "StandardOnly">> >>

SleepersTable ==
    << <<"B", "FirstAndStandard">>, <<"F", "FirstOnly">>,
       <<"S", "StandardOnly">>, <<" ", "NotSpecified">> >>

ReservationsTable ==
    << <<"A", "Compulsory">>, <<"E", "CompulsoryForBicycles">>,
       <<"R", "Recommended">>, <<"S", "Possible">>, <<" ", "NotSpecified">> >>

CateringTable ==
    << <<"C", "BuffetService">>, <<"F", "RestaurantCarForFirstClass">>,
       <<"H", "HotFood">>, <<"M", "MealForFirstClass">>,
       <<"P", "WheelchairReservations">>, <<"R", "Restaurant">>,
       <<"T", "TrolleyService">> >>

STPIndicatorTable ==
    << <<"C", "STPCancellationOfPermanentAssociation">>,
       <<"N", "NewSTPAssociation">>,
       <<"O", "STPOverlayOfPermanentAssociation">>,
       <<"P", "PermanentAssociation">> >>

(***************************************************************************)
(* bs_record_to_schedule (src/src/schedule.rs:855-1127): fills the         *)
(* schedule from the fields of a BS record, field by field in the order of *)
(* the code, and stops at the first field that is not valid.  The          *)
(* operating characteristics and the catering are pushed onto what the     *)
(* schedule already holds.                                                 *)
(***************************************************************************)
\* the characters of s that are not a code of the table, spaces among them
UnknownCharsOrBlank(table, s) == SelectSeq(s, LAMBDA c : Lookup(table, c) = <<>>)

\* the characters of s that are neither a space nor a code of the table
UnknownChars(table, s) ==
    SelectSeq(s, LAMBDA c : c # " " /\ Lookup(table, c) = <<>>)

\* the variants of the characters of s, in order, spaces skipped
RECURSIVE PushChars(_, _, _)
PushChars(acc, table, s) ==
    IF s = <<>> THEN acc
    ELSE IF Head(s) = " " THEN PushChars(acc, table, Tail(s))
    ELSE PushChars(Append(acc, Lookup(table, Head(s))[1]), table, Tail(s))

BankHolidayRunningOf(c) ==
    IF c = "X" THEN "NotOnSpecificBankHolidayMondays"
    ELSE IF c = "G" THEN "NotOnGlasgowBankHolidays"
    ELSE "RunsNormally"

\* DaysRun::from_bits: the seven flags are the bits 0 to 6
DaysRunFromBits(bits) == IF bits # <<>> /\ bits[1] < 128 THEN bits ELSE <<>>

\* DaysRun::from_bits(u8::from_str_radix(days_run, 2)): <<bits>> or <<>>
DaysRunOf(days_run) == DaysRunFromBits(ParseUnsigned(days_run, 2, U8Max))

\* a load that is a variant alone, and a load that carries a number
UnitLoad(variant) == <<[variant |-> variant, n |-> 0]>>

NumberedLoad(variant, n) ==
    IF n = <<>> THEN <<>> ELSE <<[variant |-> variant, n |-> n[1]]>>

\* a multiple unit: the code of the table, else the number of a class
UnitTimingLoad(listed, n) ==
    IF listed # <<>> THEN UnitLoad(listed[1]) ELSE NumberedLoad("SpecificClass", n)

\* the timing load of a trimmed code, n being the code parsed as a u16:
\* <<load>>, or <<>> for an invalid code
TimingLoadFor(power_type, code, n) ==
    IF power_type \in {"DieselMechanicalMultipleUnit", "DieselElectricMultipleUnit"}
    THEN UnitTimingLoad(Lookup(DMUTimingLoadTable, code), n)
    ELSE IF power_type = "ElectricMultipleUnit"
    THEN UnitTimingLoad(Lookup(EMUTimingLoadTable, code), n)
    ELSE IF power_type \in {"Diesel", "Electric", "ElectroDiesel"}
    THEN IF code = <<>> THEN UnitLoad("NotSpecified")
         ELSE IF power_type = "Electric" /\ code = <<"3", "2", "5">>
         THEN UnitLoad("Class325ElectricParcelsUnit")
         ELSE NumberedLoad("LoadInTonnes", n)
    ELSE UnitLoad("NotSpecified")

TimingLoadOfCode(power_type, code) ==
    TimingLoadFor(power_type, code, ParseUnsigned(code, 10, U16Max))

\* the timing load of a resolved power type; <<>> while there is none
TimingLoadOf(power_type, timing_load) ==
    IF power_type = <<>> THEN <<>>
    ELSE TimingLoadOfCode(power_type[1], Trim(timing_load))

\* schedule.speed = speed.trim().parse().ok().unwrap_or(0)
OrZero(n) == IF n = <<>> THEN 0 ELSE n[1]

SpeedOf(speed) == OrZero(ParseU32(Trim(speed)))

\* every field of a BS record resolved on its own: <<value>>, or <<>> (for
\* the two character strings, the characters that are in no table)
BsFields(bs) ==
    [runs_from |-> ParseDateYMD(bs.date_runs_from),
     runs_to |-> ParseDateYMD(bs.date_runs_to),
     days_run |-> DaysRunOf(bs.days_run),
     train_status |-> Lookup(TrainStatusTable, bs.train_status),
     train_category |-> Lookup(TrainCategoryTable, bs.train_category),
     power_type |-> Lookup(PowerTypeTable, Trim(bs.power_type)),
     timing_load |-> TimingLoadOf(Lookup(PowerTypeTable, Trim(bs.power_type)),
                                  bs.timing_load),
     bad_characteristics |->
         UnknownChars(OperatingCharacteristicTable, bs.operating_characteristics),
     seating_class |-> Lookup(SeatingClassTable, bs.seating_class),
     sleepers |-> Lookup(SleepersTable, bs.sleepers),
     reservations |-> Lookup(ReservationsTable, bs.reservations),
     bad_catering |-> UnknownChars(CateringTable, bs.catering_code),
     stp_indicator |-> Lookup(STPIndicatorTable, bs.stp_indicator)]

\* the assignments to the schedule, up to the first field that is not valid
ScheduleOfFields(schedule, uid, bs, f) ==
    IF f.runs_from = <<>> THEN Err("InvalidScheduleDate", bs.date_runs_from)
    ELSE IF f.runs_to = <<>> THEN Err("InvalidScheduleDate", bs.date_runs_to)
    ELSE IF f.days_run = <<>> THEN Err("InvalidDaysRun", bs.days_run)
    ELSE IF f.train_status = <<>> THEN Err("InvalidTrainStatus", <<bs.train_status>>)
    ELSE IF f.train_category = <<>> THEN Err("InvalidTrainCategory", bs.train_category)
    ELSE IF f.power_type = <<>> THEN Err("InvalidPowerType", bs.power_type)
    ELSE IF f.timing_load = <<>> THEN Err("InvalidTimingLoad", bs.timing_load)
    ELSE IF f.bad_characteristics # <<>>
    THEN Err("InvalidOperatingCharacteristic", <<f.bad_characteristics[1]>>)
    ELSE IF f.seating_class = <<>> THEN Err("InvalidSeatingClass", <<bs.seating_class>>)
    ELSE IF f.sleepers = <<>> THEN Err("InvalidSleepers", <<bs.sleepers>>)
    ELSE IF f.reservations = <<>> THEN Err("InvalidReservations", <<bs.reservations>>)
    ELSE IF f.bad_catering # <<>> THEN Err("InvalidCateringCode", <<f.bad_catering[1]>>)
    ELSE IF f.stp_indicator = <<>> THEN Err("InvalidSTPIndicator", <<bs.stp_indicator>>)
    ELSE Ok([schedule EXCEPT
               !.train_uid = uid,
               !.runs_from = f.runs_from[1],
               !.runs_to = f.runs_to[1],
               !.days_run = f.days_run[1],
               !.bank_holiday_running = BankHolidayRunningOf(bs.bank_holiday_running),
               !.train_status = f.train_status[1],
               !.train_category = f.train_category[1],
               !.headcode = Trim(bs.train_identity),
               !.portion_id = bs.portion_id,
               !.power_type = f.power_type[1],
               !.timing_load = f.timing_load[1],
               !.speed = SpeedOf(bs.speed),
               !.operating_characteristics =
                   PushChars(@, OperatingCharacteristicTable, bs.operating_characteristics),
               !.seating_class = f.seating_class[1],
               !.sleepers = f.sleepers[1],
               !.reservations = f.reservations[1],
               !.catering = PushChars(@, CateringTable, bs.catering_code),
               !.stp_indicator = f.stp_indicator[1]])

BsRecordToSchedule(schedule, uid, bs) == ScheduleOfFields(schedule, uid, bs, BsFields(bs))

(***************************************************************************)
(* ScheduleDatabase (src/src/schedule.rs:43-67).  A database value is the  *)
(* record of the three fields.                                             *)
(***************************************************************************)
NewDatabase ==
    [extract_date_time |-> NaiveDateTimeMIN,
     tiplocs |-> EmptyMap,
     schedules |-> EmptyMap]

\* the outcome of a handler: the database it leaves and Option<error>
Applied(db) == [db |-> db, err |-> <<>>]

Failed(db, e) == [db |-> db, err |-> <<e.err>>]

(***************************************************************************)
(* apply_single_record (src/src/schedule.rs:168-313), one operator per     *)
(* match arm.                                                              *)
(***************************************************************************)
\* the date and time of the header, on the database already cleared or not
HeaderDateTime(db, record, date, time) ==
    IF date = <<>>
    THEN Failed(db, Err("InvalidHeaderDateTime", record.date_of_extract))
    ELSE IF time = <<>>
    THEN Failed(db, Err("InvalidHeaderDateTime", record.time_of_extract))
    ELSE Applied([db EXCEPT
                    !.extract_date_time = [date |-> date[1], time |-> time[1]]])

\* a variant: a full update that clears the schedules with the locations
HeaderClearedAll(db, record) ==
    IF record.update_indicator = "F"
    THEN [db EXCEPT !.tiplocs = EmptyMap, !.schedules = EmptyMap]
    ELSE db

\* a full update clears the locations
HeaderCleared(db, record) ==
    IF record.update_indicator = "F" THEN [db EXCEPT !.tiplocs = EmptyMap] ELSE db

ApplyHeader(db, record) ==
    HeaderDateTime(HeaderCleared(db, record), record,
                   ParseDateDMY(record.date_of_extract),
                   ParseTimeHM(record.time_of_extract))

\* a variant: the location inserted under the key as the record pads it
ApplyTIPLOCInsertPadded(db, record) ==
    Applied([db EXCEPT !.tiplocs =
        MapInsert(@, record.tiploc,
                  [tiploc |-> Trim(record.tiploc),
                   three_alpha_code |-> Trim(record.three_alpha_code),
                   description |-> Trim(record.tps_description)])])

ApplyTIPLOCInsert(db, record) ==
    Applied([db EXCEPT !.tiplocs =
        MapInsert(@, Trim(record.tiploc),
                  [tiploc |-> Trim(record.tiploc),
                   three_alpha_code |-> Trim(record.three_alpha_code),
                   description |-> Trim(record.tps_description)])])

\* a variant: the key as the record pads it
AmendedKeyPadded(record) ==
    IF Trim(record.new_tiploc) = <<>> THEN record.tiploc ELSE record.new_tiploc

\* the key the amended location goes under, and the map it goes into
AmendedKey(record) ==
    IF Trim(record.new_tiploc) = <<>> THEN Trim(record.tiploc)
    ELSE Trim(record.new_tiploc)

\* a variant: an amendment that never removes the old key
AmendedMapKept(tiplocs, record) == tiplocs

AmendedMap(tiplocs, record) ==
    IF Trim(record.new_tiploc) = <<>> THEN tiplocs
    ELSE MapRemove(tiplocs, Trim(record.tiploc))

InsertAmended(tiplocs, tiploc, record) ==
    MapInsert(tiplocs, tiploc,
              [tiploc |-> tiploc,
               three_alpha_code |-> Trim(record.three_alpha_code),
               description |-> Trim(record.tps_description)])

ApplyTIPLOCAmend(db, record) ==
    Applied([db EXCEPT !.tiplocs =
        InsertAmended(AmendedMap(@, record), AmendedKey(record), record)])

\* a variant: a delete that drops the schedules with the location
ApplyTIPLOCDeleteWithSchedules(db, record) ==
    Applied([db EXCEPT !.tiplocs = MapRemove(@, Trim(record.tiploc)),
                       !.schedules = EmptyMap])

\* a variant: the location removed by the key as the record pads it
ApplyTIPLOCDeletePadded(db, record) ==
    Applied([db EXCEPT !.tiplocs = MapRemove(@, record.tiploc)])

ApplyTIPLOCDelete(db, record) ==
    Applied([db EXCEPT !.tiplocs = MapRemove(@, Trim(record.tiploc))])

\* a variant: entry(train_uid).or_insert(vec![]).push(sch)
PushOrInsert(db, train_uid, sch) ==
    IF ~sch.ok THEN Failed(db, sch)
    ELSE IF train_uid \in DOMAIN db.schedules
    THEN Applied([db EXCEPT !.schedules[train_uid] = Append(@, sch.val)])
    ELSE Applied([db EXCEPT !.schedules = MapInsert(@, train_uid, <<sch.val>>)])

\* entry(train_uid).and_modify(|v| v.push(sch)), or the error of the record
PushIfPresent(db, train_uid, sch) ==
    IF ~sch.ok THEN Failed(db, sch)
    ELSE IF train_uid \in DOMAIN db.schedules
    THEN Applied([db EXCEPT !.schedules[train_uid] = Append(@, sch.val)])
    ELSE Applied(db)

\* a variant: a delete that clears the schedules of every train
ApplyBasicScheduleAloneClearing(db, record) ==
    IF record.transaction_type = "D"
    THEN Applied([db EXCEPT !.schedules = EmptyMap])
    ELSE PushIfPresent(db, record.train_uid,
                       BsRecordToSchedule(NewSchedule, record.train_uid, record))

\* a BS record alone: a delete, or else a cancellation
ApplyBasicScheduleAlone(db, record) ==
    IF record.transaction_type = "D"
    THEN Applied([db EXCEPT !.schedules = MapRemove(@, record.train_uid)])
    ELSE PushIfPresent(db, record.train_uid,
                       BsRecordToSchedule(NewSchedule, record.train_uid, record))

ApplySingleRecord(db, record) ==
    CASE record.kind = "HD" -> ApplyHeader(db, record)
      [] record.kind = "TI" -> ApplyTIPLOCInsert(db, record)
      [] record.kind = "TA" -> ApplyTIPLOCAmend(db, record)
      [] record.kind = "TD" -> ApplyTIPLOCDelete(db, record)
      [] record.kind = "BS" -> ApplyBasicScheduleAlone(db, record)
      [] OTHER -> Applied(db)

(***************************************************************************)
(* apply_record_bundle (src/src/schedule.rs:317-481).                      *)
(***************************************************************************)
Some(r) == <<r.val>>

\* an LI time field: None when blank, else the parsed time
SomeTime(t) == IF t.ok THEN Ok(<<t.val>>) ELSE t

\* a variant: the field is parsed whether it is blank or not
OptionalTimeParsed(s) == SomeTime(JourneyTimeFromStr(s))

OptionalTime(s) ==
    IF Trim(s) = <<>> THEN Ok(<<>>) ELSE SomeTime(JourneyTimeFromStr(s))

\* the results that are errors, in order
Errors(results) == SelectSeq(results, LAMBDA r : ~r.ok)

\* the entry, unless one of the times it is made of is an error: the first is
\* then the outcome
EntryOrError(errs, entry) == IF errs # <<>> THEN errs[1] ELSE Ok(entry)

OriginEntry(record, dep, pub) ==
    EntryOrError(Errors(<<dep, pub>>),
        [tiploc |-> Trim(record.location),
         arrival_time |-> <<>>,
         departure_time |-> IF dep.ok THEN Some(dep) ELSE <<>>,
         passing_time |-> <<>>,
         public_arrival |-> <<>>,
         public_departure |-> IF pub.ok THEN Some(pub) ELSE <<>>,
         platform |-> Trim(record.platform),
         line |-> Trim(record.line),
         activity |-> Trim(record.activity)])

LocationOriginEntry(record) ==
    OriginEntry(record, JourneyTimeFromStr(record.scheduled_departure_time),
                        JourneyTimeFromStr(record.public_departure_time))

IntermediateEntry(record, arr, dep, pass, parr, pdep) ==
    EntryOrError(Errors(<<arr, dep, pass, parr, pdep>>),
        [tiploc |-> Trim(record.location),
         arrival_time |-> IF arr.ok THEN arr.val ELSE <<>>,
         departure_time |-> IF dep.ok THEN dep.val ELSE <<>>,
         passing_time |-> IF pass.ok THEN pass.val ELSE <<>>,
         public_arrival |-> IF parr.ok THEN parr.val ELSE <<>>,
         public_departure |-> IF pdep.ok THEN pdep.val ELSE <<>>,
         platform |-> Trim(record.platform),
         line |-> Trim(record.line),
         activity |-> Trim(record.activity)])

LocationIntermediateEntry(record) ==
    IntermediateEntry(record, OptionalTime(record.scheduled_arrival_time),
                              OptionalTime(record.scheduled_departure_time),
                              OptionalTime(record.scheduled_pass),
                              OptionalTime(record.public_arrival_time),
                              OptionalTime(record.public_departure_time))

TerminateEntry(record, arr, pub) ==
    EntryOrError(Errors(<<arr, pub>>),
        [tiploc |-> Trim(record.location),
         arrival_time |-> IF arr.ok THEN Some(arr) ELSE <<>>,
         departure_time |-> <<>>,
         passing_time |-> <<>>,
         public_arrival |-> IF pub.ok THEN Some(pub) ELSE <<>>,
         public_departure |-> <<>>,
         platform |-> Trim(record.platform),
         line |-> <<>>,
         activity |-> Trim(record.activity)])

LocationTerminateEntry(record) ==
    TerminateEntry(record, JourneyTimeFromStr(record.scheduled_arrival_time),
                           JourneyTimeFromStr(record.public_arrival_time))

\* schedule.journey.push(entry), or the error of the entry
PushEntry(schedule, e) ==
    IF e.ok THEN Ok([schedule EXCEPT !.journey = Append(@, e.val)]) ELSE e

\* a variant: a CR record overrides the headcode of the schedule
OtherRecordApplied(schedule, record) ==
    IF record.kind = "CR" THEN Ok([schedule EXCEPT !.headcode = <<>>]) ELSE Ok(schedule)

\* _ => (): a record of any other kind leaves the schedule as it is
OtherRecord(schedule, record) == Ok(schedule)

\* one iteration of the loop over the bundle: the schedule after this record
BundleRecord(schedule, record) ==
    CASE record.kind = "BS" ->
            BsRecordToSchedule(schedule, Trim(record.train_uid), record)
      [] record.kind = "BX" ->
            Ok([schedule EXCEPT
                  !.atoc_code = Trim(record.atoc_code),
                  !.subject_to_performance_monitoring =
                      (record.applicable_timetable_code = "Y")])
      [] record.kind = "LO" -> PushEntry(schedule, LocationOriginEntry(record))
      [] record.kind = "LI" -> PushEntry(schedule, LocationIntermediateEntry(record))
      [] record.kind = "LT" -> PushEntry(schedule, LocationTerminateEntry(record))
      [] OTHER -> OtherRecord(schedule, record)

\* the loop over the bundle, left at the first error
RECURSIVE BundleSchedule(_, _)
BundleRest(s, rest) == IF s.ok THEN BundleSchedule(s.val, rest) ELSE s

BundleSchedule(schedule, record_bundle) ==
    IF record_bundle = <<>> THEN Ok(schedule)
    ELSE BundleRest(BundleRecord(schedule, Head(record_bundle)), Tail(record_bundle))

\* a variant: the schedule pushed twice onto the list of a present uid
StoreScheduleTwice(schedules, schedule) ==
    IF schedule.train_uid \in DOMAIN schedules
    THEN [schedules EXCEPT ![schedule.train_uid] = Append(Append(@, schedule), schedule)]
    ELSE MapInsert(schedules, schedule.train_uid, <<>>)

\* a variant: the schedule pushed onto the list of every train
StoreScheduleEverywhere(schedules, schedule) ==
    IF schedule.train_uid \in DOMAIN schedules
    THEN [uid \in DOMAIN schedules |-> Append(schedules[uid], schedule)]
    ELSE MapInsert(schedules, schedule.train_uid, <<>>)

\* entry(uid).and_modify(|v| v.push(schedule)).or_insert(vec![])
StoreSchedule(schedules, schedule) ==
    IF schedule.train_uid \in DOMAIN schedules
    THEN [schedules EXCEPT ![schedule.train_uid] = Append(@, schedule)]
    ELSE MapInsert(schedules, schedule.train_uid, <<>>)

\* the schedule of the bundle stored, or the error of the bundle
StoreBundle(db, s) ==
    IF ~s.ok THEN Failed(db, s)
    ELSE Applied([db EXCEPT !.schedules = StoreSchedule(@, s.val)])

ApplyRecordBundle(db, record_bundle) ==
    StoreBundle(db, BundleSchedule(NewSchedule, record_bundle))

(***************************************************************************)
(* apply_records (src/src/schedule.rs:78-160).  LoopBody is one iteration  *)
(* of the for loop on the loop's state: the database, the bundle being     *)
(* collected, the errors so far and the index of the record.               *)
(***************************************************************************)
\* does this record submit the bundle it was pushed to
Submit(record) ==
    \/ record.kind \in {"HD", "ZZ", "AA", "LT", "TI", "TA", "TD"}
    \/ /\ record.kind = "BS"
       /\ (record.transaction_type = "D" \/ record.stp_indicator = "C")

\* a bundle of one record is applied as a single record
ApplyBundle(db, pushed) ==
    IF Len(pushed) = 1 THEN ApplySingleRecord(db, pushed[1])
    ELSE ApplyRecordBundle(db, pushed)

\* a variant: the bundle is cleared only when it was applied without error
SubmittedKeepingFailed(st, r) ==
    [db |-> r.db,
     bundle |-> IF r.err # <<>> THEN st.bundle ELSE <<>>,
     errors |-> IF r.err # <<>>
                THEN Append(st.errors, <<st.record_idx, r.err[1]>>)
                ELSE st.errors,
     record_idx |-> st.record_idx + 1]

\* a variant: the error carries the index of the first record of the bundle
SubmittedAtBundleStart(st, r) ==
    [db |-> r.db,
     bundle |-> <<>>,
     errors |-> IF r.err # <<>>
                THEN Append(st.errors, <<st.record_idx - Len(st.bundle), r.err[1]>>)
                ELSE st.errors,
     record_idx |-> st.record_idx + 1]

\* the loop's state after the bundle was submitted with outcome r
Submitted(st, r) ==
    [db |-> r.db,
     bundle |-> <<>>,
     errors |-> IF r.err # <<>>
                THEN Append(st.errors, <<st.record_idx, r.err[1]>>)
                ELSE st.errors,
     record_idx |-> st.record_idx + 1]

LoopBody(st, record) ==
    IF Submit(record)
    THEN Submitted(st, ApplyBundle(st.db, Append(st.bundle, record)))
    ELSE [st EXCEPT !.bundle = Append(@, record), !.record_idx = @ + 1]

RECURSIVE RunLoop(_, _)
RunLoop(st, recs) ==
    IF recs = <<>> THEN st ELSE RunLoop(LoopBody(st, Head(recs)), Tail(recs))

\* the database and the returned errors of db.apply_records(recs)
Returned(st) == [db |-> st.db, errors |-> st.errors]

ApplyRecords(db, recs) ==
    Returned(RunLoop([db |-> db, bundle |-> <<>>, errors |-> <<>>, record_idx |-> 0],
                     recs))

(***************************************************************************)
(* The records fed to the engine.  A record carries its kind and the       *)
(* fields the engine reads, at the widths of src/src/types.rs.             *)
(***************************************************************************)
UidC11004 == <<"C", "1", "1", "0", "0", "4">>

\* a train uid of five characters, padded to the width of the field
UidL0001Padded == <<"L", "0", "0", "0", "1", " ">>

Date240601 == <<"2", "4", "0", "6", "0", "1">>

Date240602 == <<"2", "4", "0", "6", "0", "2">>

BasicSchedule(transaction_type, train_uid, date, stp_indicator) ==
    [kind |-> "BS",
     transaction_type |-> transaction_type,
     train_uid |-> train_uid,
     date_runs_from |-> date,
     date_runs_to |-> date,
     days_run |-> <<"1", "0", "0", "0", "0", "0", "0">>,
     bank_holiday_running |-> " ",
     train_status |-> "P",
     train_category |-> <<"O", "O">>,
     train_identity |-> <<"2", "C", "0", "1">>,
     portion_id |-> " ",
     power_type |-> <<"E", "M", "U">>,
     timing_load |-> <<" ", " ", " ", " ">>,
     speed |-> <<"1", "0", "0">>,
     operating_characteristics |-> <<"D", " ", " ", " ", " ", " ">>,
     seating_class |-> "B",
     sleepers |-> " ",
     reservations |-> " ",
     catering_code |-> <<"T", " ", " ", " ">>,
     stp_indicator |-> stp_indicator]

BsNew == BasicSchedule("N", UidC11004, Date240601, "P")

BsRevise == BasicSchedule("R", UidC11004, Date240602, "O")

BsCancel == BasicSchedule("N", UidC11004, Date240602, "C")

BsDelete == BasicSchedule("D", UidC11004, Date240601, "P")

BsNewPadded == BasicSchedule("N", UidL0001Padded, Date240601, "P")

BsDeletePadded == BasicSchedule("D", UidL0001Padded, Date240601, "P")

\* a train status outside the table
BsBadStatus == [BsNew EXCEPT !.train_status = "X"]

BxRecord ==
    [kind |-> "BX", atoc_code |-> <<"S", "W">>, applicable_timetable_code |-> "Y"]

LoRecord ==
    [kind |-> "LO",
     location |-> <<"W", "A", "T", "R", "L", "M", "N", " ">>,
     scheduled_departure_time |-> <<"1", "0", "0", "0", " ">>,
     public_departure_time |-> <<"1", "0", "0", "0">>,
     platform |-> <<"1", " ", " ">>,
     line |-> <<"M", " ", " ">>,
     activity |-> <<"T", "B">>]

\* a TIPLOC of seven characters with a suffix in the 8th column
LoSuffix == [LoRecord EXCEPT !.location = <<"W", "A", "T", "R", "L", "M", "N", "2">>]

\* a departure time that is not a number
LoBadTime == [LoRecord EXCEPT !.scheduled_departure_time = <<"1", "0", "X", "0", " ">>]

LiRecord ==
    [kind |-> "LI",
     location |-> <<"V", "A", "U", "X", "H", "L", "M", " ">>,
     scheduled_arrival_time |-> <<"1", "0", "0", "3", " ">>,
     scheduled_departure_time |-> <<"1", "0", "0", "4", " ">>,
     scheduled_pass |-> <<" ", " ", " ", " ", " ">>,
     public_arrival_time |-> <<"1", "0", "0", "3">>,
     public_departure_time |-> <<"1", "0", "0", "4">>,
     platform |-> <<"2", " ", " ">>,
     line |-> <<"M", " ", " ">>,
     activity |-> <<"T", " ">>]

CrRecord == [kind |-> "CR"]

LtRecord ==
    [kind |-> "LT",
     location |-> <<"C", "L", "P", "H", "M", "J", "1", " ">>,
     scheduled_arrival_time |-> <<"1", "0", "1", "0", "H">>,
     public_arrival_time |-> <<"1", "0", "1", "0">>,
     platform |-> <<"5", " ", " ">>,
     activity |-> <<"T", "F">>]

Header(date_of_extract, time_of_extract, update_indicator) ==
    [kind |-> "HD",
     date_of_extract |-> date_of_extract,
     time_of_extract |-> time_of_extract,
     update_indicator |-> update_indicator]

\* 1 June 2024, 12:00, full
HdFull == Header(<<"0", "1", "0", "6", "2", "4">>, <<"1", "2", "0", "0">>, "F")

\* 2 June 2024, 08:30, update
HdUpdate == Header(<<"0", "2", "0", "6", "2", "4">>, <<"0", "8", "3", "0">>, "U")

\* 31 February: no such date
HdBadDate == Header(<<"3", "1", "0", "2", "2", "4">>, <<"1", "2", "0", "0">>, "F")

\* 24:60: no such time
HdBadTime == Header(<<"0", "2", "0", "6", "2", "4">>, <<"2", "4", "6", "0">>, "U")

TiplocWATRLMN == <<"W", "A", "T", "R", "L", "M", "N">>

TiplocCLPHMJ == <<"C", "L", "P", "H", "M", "J", " ">>

Blank7 == <<" ", " ", " ", " ", " ", " ", " ">>

TIPLOCInsert(tiploc, three_alpha_code, tps_description) ==
    [kind |-> "TI",
     tiploc |-> tiploc,
     three_alpha_code |-> three_alpha_code,
     tps_description |-> tps_description]

TIPLOCAmend(tiploc, three_alpha_code, tps_description, new_tiploc) ==
    [kind |-> "TA",
     tiploc |-> tiploc,
     three_alpha_code |-> three_alpha_code,
     tps_description |-> tps_description,
     new_tiploc |-> new_tiploc]

TIPLOCDelete(tiploc) == [kind |-> "TD", tiploc |-> tiploc]

TiWaterloo == TIPLOCInsert(TiplocWATRLMN, <<"W", "A", "T">>, <<"W", "L", "O", "O", " ">>)

\* the same TIPLOC with no CRS code and another description
TiWaterlooNoCrs == TIPLOCInsert(TiplocWATRLMN, <<" ", " ", " ">>, <<"M", "A", "I", "N", " ">>)

TiClapham == TIPLOCInsert(TiplocCLPHMJ, <<"C", "L", "J">>, <<"C", "L", "A", "P", "H">>)

\* amend in place
TaWaterloo == TIPLOCAmend(TiplocWATRLMN, <<"W", "A", "T">>, <<"L", "O", "N", " ", "W">>, Blank7)

\* rename WATRLMN to CLPHMJ
TaRename == TIPLOCAmend(TiplocWATRLMN, <<"W", "A", "T">>, <<"W", "L", "O", "O", " ">>, TiplocCLPHMJ)

\* a rename of CLPHMJ to itself
TaRenameSame == TIPLOCAmend(TiplocCLPHMJ, <<"C", "L", "J">>, <<"J", "C", "N", " ", " ">>, TiplocCLPHMJ)

TdWaterloo == TIPLOCDelete(TiplocWATRLMN)

TdClapham == TIPLOCDelete(TiplocCLPHMJ)

AaRecord == [kind |-> "AA"]

ZzRecord == [kind |-> "ZZ"]

\* the records of each kind that a feed of schedules is made of
ScheduleFeed ==
    [HD |-> {}, TI |-> {}, TA |-> {}, TD |-> {}, AA |-> {}, ZZ |-> {},
     BS |-> {BsNew, BsRevise, BsCancel, BsDelete, BsNewPadded, BsDeletePadded,
            BsBadStatus},
     BX |-> {BxRecord},
     LO |-> {LoRecord, LoBadTime},
     LI |-> {LiRecord},
     CR |-> {CrRecord},
     LT |-> {LtRecord}]

\* the records of each kind that a feed of locations is made of
TiplocFeed ==
    [HD |-> {HdFull, HdUpdate, HdBadDate},
     TI |-> {TiWaterloo, TiWaterlooNoCrs, TiClapham},
     TA |-> {TaWaterloo, TaRename, TaRenameSame},
     TD |-> {TdWaterloo, TdClapham},
     AA |-> {AaRecord},
     BS |-> {}, BX |-> {}, LO |-> {}, LI |-> {}, CR |-> {}, LT |-> {},
     ZZ |-> {ZzRecord}]

\* headers, among the records that open, fill and close a bundle
HeaderFeed ==
    [HD |-> {HdFull, HdUpdate, HdBadDate, HdBadTime},
     TI |-> {TiWaterloo},
     TA |-> {}, TD |-> {}, AA |-> {},
     BS |-> {BsNew},
     BX |-> {}, LI |-> {}, CR |-> {},
     LO |-> {LoRecord, LoBadTime, LoSuffix},
     LT |-> {LtRecord},
     ZZ |-> {ZzRecord}]

(***************************************************************************)
(* Feeds applied by earlier apply_records calls: the database a call       *)
(* starts from is the one these calls left.                                *)
(***************************************************************************)
\* end-to-end scenario S3: one new schedule
FeedNewSchedule == <<BsNew, BxRecord, LoRecord, LiRecord, LtRecord>>

\* the schedule again, then revised: two bundles after the first
FeedThreeBundles ==
    FeedNewSchedule \o <<BsNew, LoRecord, LtRecord>> \o <<BsRevise, LoRecord, LtRecord>>

FeedLocations == <<TiWaterloo, TiClapham>>

PriorFeeds ==
    {<<>>, FeedNewSchedule, FeedLocations \o FeedThreeBundles}

PriorFeedsFull ==
    {<<>>, FeedLocations \o FeedThreeBundles}

(***************************************************************************)
(* parse_cif (src/src/parser.rs:35-74) and the row parsers it calls.  The  *)
(* byte source is a sequence of ASCII characters (the parser takes no      *)
(* other: from_utf8_lossy, then byte slices); a reader is what is left of  *)
(* it.                                                                     *)
(***************************************************************************)
\* let mut buf = [0u8; 81]: an 80 character row and its new line
ChunkLen == 81

\* read_exact: the buffer filled, or an error when the source ends before
\* (the bytes that were left are then consumed)
ReadExact(reader, n) ==
    IF Len(reader) >= n
    THEN [ok |-> TRUE, buf |-> SubSeq(reader, 1, n), reader |-> SubSeq(reader, n + 1, Len(reader))]
    ELSE [ok |-> FALSE, buf |-> <<>>, reader |-> <<>>]

\* the record types the match of parse_cif knows, with the kind they name
RecordTypeTable ==
    << <<<<"H", "D">>, "HD">>, <<<<"T", "I">>, "TI">>, <<<<"T", "A">>, "TA">>,
       <<<<"T", "D">>, "TD">>, <<<<"A", "A">>, "AA">>, <<<<"B", "S">>, "BS">>,
       <<<<"B", "X">>, "BX">>, <<<<"L", "O">>, "LO">>, <<<<"L", "I">>, "LI">>,
       <<<<"C", "R">>, "CR">>, <<<<"L", "T">>, "LT">>, <<<<"Z", "Z">>, "ZZ">> >>

\* CIFRecord::Trailer, whose kind() is "ZZ" (src/src/types.rs:459)
Trailer == [kind |-> "ZZ"]

HeaderOf(record, date, time, user_start_date, user_end_date) ==
    IF date = <<>> \/ time = <<>> THEN Err("FailedToParseDateOfExtract", <<>>)
    ELSE IF record[47] \notin {"U", "F"} THEN Err("InvalidUpdateIndicator", <<>>)
    ELSE IF user_start_date = <<>> \/ user_end_date = <<>>
    THEN Err("FailedToParseDateOfExtract", <<>>)
    ELSE Ok([kind |-> "HD",
             file_mainframe_identity |-> Slice(record, 2, 22),
             date_of_extract |-> date[1],
             time_of_extract |-> time[1],
             current_file_reference |-> Slice(record, 32, 39),
             last_file_reference |-> Slice(record, 39, 46),
             update_indicator |-> IF record[47] = "U" THEN "Update" ELSE "Full",
             version |-> record[48],
             user_start_date |-> user_start_date[1],
             user_end_date |-> user_end_date[1]])

parse_header(record) ==
    HeaderOf(record, ParseDateYMD(Slice(record, 22, 28)),
                     ParseTimeHM(Slice(record, 28, 32)),
                     ParseDateYMD(Slice(record, 48, 54)),
                     ParseDateYMD(Slice(record, 54, 60)))

\* the fields that parse_tiploc_insert and parse_tiploc_amend share
TiplocRecordOf(kind, record, capitals_identification, nlc, stanox) ==
    IF capitals_identification = <<>> THEN Err("InvalidCapitalsIdentification", <<>>)
    ELSE IF nlc = <<>> THEN Err("InvalidNLC", <<>>)
    ELSE IF stanox = <<>> THEN Err("InvalidStanox", <<>>)
    ELSE Ok([kind |-> kind,
             tiploc |-> Slice(record, 2, 9),
             capitals_identification |-> capitals_identification[1],
             nlc |-> nlc[1],
             nlc_check_char |-> record[18],
             tps_description |-> Slice(record, 18, 44),
             stanox |-> stanox[1],
             three_alpha_code |-> Slice(record, 53, 56),
             nlc_description |-> Slice(record, 56, 72)])

\* parse_tiploc_amend has one field more
WithNewTiploc(record, new_tiploc) ==
    IF record.ok THEN Ok(record.val @@ [new_tiploc |-> new_tiploc]) ELSE record

parse_tiploc_insert(record) ==
    TiplocRecordOf("TI", record, ParseUnsigned(Slice(record, 9, 11), 10, U8Max),
                   ParseU32(Slice(record, 11, 17)), ParseU32(Slice(record, 44, 49)))

parse_tiploc_amend(record) ==
    WithNewTiploc(
        TiplocRecordOf("TA", record, ParseUnsigned(Slice(record, 9, 11), 10, U8Max),
                       ParseU32(Slice(record, 11, 17)), ParseU32(Slice(record, 44, 49))),
        Slice(record, 72, 79))

parse_tiploc_delete(record) == Ok([kind |-> "TD", tiploc |-> Slice(record, 2, 9)])

\* the arms of the match for a record type the match knows
ParseKnownRecord(record_type, record_raw) ==
    CASE record_type = "HD" -> parse_header(record_raw)
      [] record_type = "TI" -> parse_tiploc_insert(record_raw)
      [] record_type = "TA" -> parse_tiploc_amend(record_raw)
      [] record_type = "TD" -> parse_tiploc_delete(record_raw)
      [] OTHER -> Ok(Trailer)

\* a variant: the loop is never left at a ZZ row
IsLastRowNever(record_type) == FALSE

\* if record_type == "ZZ" { break; }
IsLastRow(record_type) == record_type = "ZZ"

\* the record, or the error tagged with the line, then the push and the break
PushRecord(st, record_type, record) ==
    IF ~record.ok
    THEN [st EXCEPT !.result =
              <<Err("AtLine", [line |-> st.line, inner |-> record.err])>>]
    ELSE IF IsLastRow(record_type)
    THEN [st EXCEPT !.file = Append(@, record.val),
                    !.result = <<Ok(Append(st.file, record.val))>>]
    ELSE [st EXCEPT !.file = Append(@, record.val), !.line = @ + 1]

\* the match on the record type: a type it does not know returns at once
MatchRecordType(st, record_type, record_raw) ==
    IF record_type = <<>>
    THEN [st EXCEPT !.result = <<Err("InvalidRecordType", Slice(record_raw, 0, 2))>>]
    ELSE PushRecord(st, record_type[1], ParseKnownRecord(record_type[1], record_raw))

\* a variant: a source that ends early ends the file as if a ZZ row was read
ReadFailedEndsFile(st) == [st EXCEPT !.result = <<Ok(st.file)>>]

\* content_reader.read_exact(&mut buf)? on a source that ends early
ReadFailed(st) == [st EXCEPT !.result = <<Err("Read", <<>>)>>]

\* what the loop does with the outcome of read_exact
ProcessBuffer(st, read) ==
    IF ~read.ok THEN ReadFailed([st EXCEPT !.content_reader = read.reader])
    ELSE MatchRecordType([st EXCEPT !.content_reader = read.reader],
                         Lookup(RecordTypeTable, Slice(read.buf, 0, 2)),
                         Slice(read.buf, 0, 80))

\* one iteration of the loop of parse_cif
ParseLoopBody(st) == ProcessBuffer(st, ReadExact(st.content_reader, ChunkLen))

(***************************************************************************)
(* The byte sources given to parse_cif: rows of 80 characters and a new    *)
(* line, then what may be left of a row that was cut short.                *)
(***************************************************************************)
\* rows in a source, whatever is left after them not counted
MaxRows == 3

Spaces(n) == [i \in 1..n |-> " "]

Pad(s, n) == s \o Spaces(n - Len(s))

Row(columns) == Pad(columns, 80) \o <<"\n">>

\* an HD row of 1 June 2024, 12:00, with the update indicator given
HeaderRow(update_indicator) ==
    Row(<<"H", "D">> \o Pad(<<"T", "P", "S">>, 20) \o Date240601
        \o <<"1", "2", "0", "0">> \o Spaces(14) \o <<update_indicator, "A">>
        \o Date240601 \o Date240602)

\* a TI or TA row of WATRLMN with the NLC, the STANOX and the new TIPLOC given
TiplocRow(record_type, nlc, stanox, new_tiploc) ==
    Row(record_type \o TiplocWATRLMN \o <<"0", "0">> \o nlc \o <<"A">>
        \o Pad(<<"W", "L", "O", "O">>, 26) \o stanox \o Spaces(4)
        \o <<"W", "A", "T">> \o Spaces(16) \o new_tiploc)

\* a row with nothing but its record type
BareRow(record_type) == Row(record_type)

RowAlphabet ==
    {HeaderRow("F"),
     HeaderRow("X"),
     TiplocRow(<<"T", "I">>, <<"5", "5", "9", "8", "0", "0">>, <<"8", "7", "2", "1", "4">>, <<>>),
     TiplocRow(<<"T", "I">>, Spaces(6), <<"8", "7", "2", "1", "4">>, <<>>),
     TiplocRow(<<"T", "A">>, <<"5", "5", "9", "8", "0", "0">>, Spaces(5), TiplocCLPHMJ),
     BareRow(<<"T", "D">> \o TiplocWATRLMN),
     BareRow(<<"B", "S">>),
     BareRow(<<"X", "X">>),
     BareRow(<<"Z", "Z">>)}

\* what may follow the last full row: nothing, the start of a row, or a ZZ
\* row without its new line
Tails == {<<>>, <<"Z", "Z">>, Pad(<<"Z", "Z">>, 80)}

RECURSIVE Concat(_)
Concat(rows) == IF rows = <<>> THEN <<>> ELSE Head(rows) \o Concat(Tail(rows))

Sources ==
    {Concat(rows) \o tail :
        rows \in UNION {[1..n -> RowAlphabet] : n \in 0..MaxRows},
        tail \in Tails}

(***************************************************************************)
(* get_crs_from_tiploc, the query of the database for the CRS codes of a   *)
(* TIPLOC.  The sources at hand call it (src/tests/parse_full.rs:52-82)    *)
(* and do not define it; it is modelled from section 4.2.6 of the          *)
(* specification: the exact key first, then the code with its last         *)
(* character dropped, again and again, until a key is found; the CRS code  *)
(* of that TIPLOC, when it has one, alone in a set; the empty set when no  *)
(* prefix is a key.  What is returned when the TIPLOC found has no CRS     *)
(* code is not said: the empty set and the outcome of the search going on  *)
(* are both kept as outcomes.                                              *)
(***************************************************************************)
\* the code without its last character
DropLast(code) == SubSeq(code, 1, Len(code) - 1)

\* the search at its end: the CRS code of the TIPLOC found, alone in a set
CrsFound(tiploc) == {{tiploc.three_alpha_code}}

\* the exact key only, no prefix tried
CrsOutcomesExact(map, code) ==
    IF code \in DOMAIN map /\ map[code].three_alpha_code # <<>>
    THEN CrsFound(map[code])
    ELSE {{}}

RECURSIVE CrsOutcomes(_, _)
\* the sets the query may return for the code
CrsOutcomes(map, code) ==
    IF code \in DOMAIN map /\ map[code].three_alpha_code # <<>>
    THEN CrsFound(map[code])
    ELSE IF code = <<>>
    THEN {{}}
    ELSE IF code \in DOMAIN map
    THEN {{}} \cup CrsOutcomes(map, DropLast(code))
    ELSE CrsOutcomes(map, DropLast(code))

get_crs_from_tiploc(map, code) == CrsOutcomes(map, code)

\* a TIPLOC of seven characters of which CLPHMJ is a prefix
TiClaphamOne ==
    TIPLOCInsert(<<"C", "L", "P", "H", "M", "J", "1">>, <<"C", "L", "P">>,
                 <<"Y", "A", "R", "D", " ">>)

\* the records that change the TIPLOCs between two queries
CrsFeed ==
    [HD |-> {},
     TI |-> {TiWaterloo, TiWaterlooNoCrs, TiClapham, TiClaphamOne},
     TA |-> {TaRename},
     TD |-> {TdWaterloo, TdClapham},
     AA |-> {}, BS |-> {}, BX |-> {}, LO |-> {}, LI |-> {}, CR |-> {}, LT |-> {},
     ZZ |-> {}]

\* the codes queried: a key, a key padded to seven columns, a key with a
\* suffix in its last column, a code of which no prefix is a key
Codes ==
    {TiplocWATRLMN,
     TiplocCLPHMJ,
     <<"C", "L", "P", "H", "M", "J", "1">>,
     <<"C", "L", "P", "H", "M", "J", "W">>,
     <<"V", "A", "U", "X", "H", "L", "M">>}

(***************************************************************************)
(* Location records with time fields that are blank, out of the range of   *)
(* a clock, or not a time.                                                 *)
(***************************************************************************)
\* a departure at 24:60
Lo2460 == [LoRecord EXCEPT !.scheduled_departure_time = <<"2", "4", "6", "0", " ">>]

\* a public arrival at 99:99
Lt9999 == [LtRecord EXCEPT !.public_arrival_time = <<"9", "9", "9", "9">>]

\* an LI with every time field blank
LiBlank ==
    [LiRecord EXCEPT
        !.scheduled_arrival_time = <<" ", " ", " ", " ", " ">>,
        !.scheduled_departure_time = <<" ", " ", " ", " ", " ">>,
        !.scheduled_pass = <<" ", " ", " ", " ", " ">>,
        !.public_arrival_time = <<" ", " ", " ", " ">>,
        !.public_departure_time = <<" ", " ", " ", " ">>]

\* a passing point: the passing time alone
LiPassing == [LiBlank EXCEPT !.scheduled_pass = <<"1", "0", "0", "5", "H">>]

\* a departure time with a blank minute
LiBadTime == [LiRecord EXCEPT !.scheduled_departure_time = <<"1", "0", " ", " ", " ">>]

\* the records of a feed of journeys
JourneyFeed ==
    [HD |-> {}, TI |-> {}, TA |-> {}, TD |-> {}, AA |-> {}, ZZ |-> {},
     BS |-> {BsNew},
     BX |-> {}, CR |-> {},
     LO |-> {LoRecord, Lo2460},
     LI |-> {LiRecord, LiBlank, LiPassing, LiBadTime},
     LT |-> {LtRecord, Lt9999}]

(***************************************************************************)
(* The strings the conversions are called on: time fields of four and five *)
(* characters, days_run fields of seven.                                   *)
(***************************************************************************)
\* two characters for the hour: numbers in and out of the range of a clock,
\* a sign, a space before or after a digit, a letter
HourTexts ==
    {<<"0", "0">>, <<"0", "9">>, <<"2", "3">>, <<"2", "4">>, <<"9", "9">>,
     <<"+", "5">>, <<"5", " ">>, <<" ", "5">>, <<"1", "X">>}

MinuteTexts ==
    {<<"0", "0">>, <<"3", "0">>, <<"5", "9">>, <<"6", "0">>, <<"+", "9">>,
     <<" ", " ">>, <<"X", "0">>}

\* the fifth character of a time field, or none
FifthTexts == {<<>>, <<" ">>, <<"H">>, <<"h">>, <<"X">>, <<"0">>}

TimeTexts ==
    {hour \o minute \o fifth :
        hour \in HourTexts, minute \in MinuteTexts, fifth \in FifthTexts}

\* the strings of seven characters '0' and '1'
BinaryTexts == [1..7 -> {"0", "1"}]

\* days_run fields that are not made of '0' and '1' alone
OtherDaysRunTexts ==
    {<<"1", "0", "0", "0", "0", "0", "2">>,
     <<" ", " ", " ", " ", " ", " ", " ">>,
     <<"Y", "Y", "Y", "Y", "Y", "N", "N">>,
     <<"1", "1", "1", "1", "1", "0", " ">>,
     <<"+", "0", "0", "0", "0", "0", "1">>,
     <<"-", "0", "0", "0", "0", "0", "1">>}

DaysRunTexts == BinaryTexts \cup OtherDaysRunTexts

\* BS records with one code outside its table each
BsBadCategory == [BsNew EXCEPT !.train_category = <<"Q", "Q">>]

BsBadPowerType == [BsNew EXCEPT !.power_type = <<"X", "Y", "Z">>]

BsBadCharacteristic ==
    [BsNew EXCEPT !.operating_characteristics = <<"D", " ", "X", " ", " ", " ">>]

BsBadSeating == [BsNew EXCEPT !.seating_class = "X"]

BsBadSleepers == [BsNew EXCEPT !.sleepers = "X"]

BsBadReservations == [BsNew EXCEPT !.reservations = "X"]

BsBadCatering == [BsNew EXCEPT !.catering_code = <<"T", "X", " ", " ">>]

BsBadIndicator == [BsNew EXCEPT !.stp_indicator = " "]

\* a BS record with every code blank that may be, and characters between
\* the blanks of the two character strings
BsBlank ==
    [BsNew EXCEPT !.train_status = " ",
                  !.train_category = <<" ", " ">>,
                  !.power_type = <<" ", " ", " ">>,
                  !.operating_characteristics = <<" ", "D", " ", " ", "B", " ">>,
                  !.seating_class = " ",
                  !.sleepers = " ",
                  !.reservations = " ",
                  !.catering_code = <<" ", " ", "T", " ">>]

\* cancellations: of blank codes on a bank holiday character that is not
\* a code, and of a sleepers code outside the table
BsCancelBlank ==
    [BsBlank EXCEPT !.stp_indicator = "C", !.bank_holiday_running = "Q",
                    !.date_runs_from = Date240602, !.date_runs_to = Date240602]

BsCancelBadSleepers == [BsCancel EXCEPT !.sleepers = "Z"]

\* a feed of BS records with the codes above
CodeFeed ==
    [BS |-> {BsBadStatus, BsBadCategory, BsBadPowerType, BsBadCharacteristic,
             BsBadSeating, BsBadSleepers, BsBadReservations, BsBadCatering,
             BsBadIndicator, BsBlank, BsCancelBlank, BsCancelBadSleepers},
     LT |-> {LtRecord}]

\* a feed of locations, associations, trailers and schedules together
MixedFeed ==
    [HD |-> {}, BX |-> {}, LO |-> {}, LI |-> {}, CR |-> {},
     TI |-> {TiClapham},
     TA |-> {TaRename},
     TD |-> {TdWaterloo},
     AA |-> {AaRecord},
     BS |-> {BsNew, BsCancel, BsDelete},
     LT |-> {LtRecord},
     ZZ |-> {ZzRecord}]

\* a feed of records that submit, with and without an error, and of records
\* that do not
SplitFeed ==
    [TA |-> {}, TD |-> {}, AA |-> {}, ZZ |-> {}, BX |-> {}, LI |-> {}, CR |-> {},
     HD |-> {HdUpdate, HdBadDate},
     TI |-> {TiWaterloo},
     BS |-> {BsNew},
     LO |-> {LoBadTime},
     LT |-> {LtRecord}]

\* power_type fields of three characters: the nine codes and one more
PowerTypeTexts ==
    {<<" ", " ", " ">>, <<"D", " ", " ">>, <<"D", "E", "M">>, <<"D", "M", "U">>,
     <<"E", " ", " ">>, <<"E", "D", " ">>, <<"E", "M", "L">>, <<"E", "M", "U">>,
     <<"H", "S", "T">>, <<"X", " ", " ">>}

\* timing_load fields of four characters: blank, the codes of the two
\* tables, "325", numbers, and codes that are neither listed nor a number
TimingLoadTexts ==
    {<<" ", " ", " ", " ">>,
     <<"6", "9", " ", " ">>, <<"A", " ", " ", " ">>, <<"E", " ", " ", " ">>,
     <<"N", " ", " ", " ">>, <<"S", " ", " ", " ">>, <<"T", " ", " ", " ">>,
     <<"V", " ", " ", " ">>, <<"X", " ", " ", " ">>, <<"D", "1", " ", " ">>,
     <<"D", "2", " ", " ">>, <<"D", "3", " ", " ">>,
     <<"A", "T", " ", " ">>, <<"0", " ", " ", " ">>, <<"5", "0", "6", " ">>,
     <<"3", "2", "5", " ">>, <<"0", "3", "2", "5">>,
     <<"7", "5", " ", " ">>, <<" ", "7", "5", " ">>, <<"1", "6", "0", "0">>,
     <<"9", "9", "9", "9">>, <<"0", "0", " ", " ">>,
     <<"+", "7", "5", " ">>, <<"-", "7", "5", " ">>, <<"7", " ", "5", " ">>,
     <<"7", "X", " ", " ">>, <<"Q", " ", " ", " ">>, <<"e", " ", " ", " ">>}

\* BS records that differ in the power type and the timing load alone
TimingLoadRecords ==
    {[BsNew EXCEPT !.power_type = p, !.timing_load = t] :
        p \in PowerTypeTexts, t \in TimingLoadTexts}

(***************************************************************************)
(* State: the fields of the ScheduleDatabase, the locals of apply_records, *)
(* and a history of the call: the feed applied before it (prior), the      *)
(* records consumed so far (records), the database before the last record  *)
(* was consumed (before) and what the last iteration did (last).           *)
(***************************************************************************)
VARIABLES extract_date_time, tiplocs, schedules, bundle, errors, record_idx,
          prior, records, before, last

\* a call of parse_cif: the byte source as given (content), what is left of
\* it (content_reader), the locals file and line, and the outcome once the
\* call has returned (result, a sequence of length 0 or 1)
VARIABLES content, content_reader, file, line, result

parser_vars == <<content, content_reader, file, line, result>>

\* the last query of the database since it changed: the code asked for and
\* the set returned (a sequence of length 0 or 1)
VARIABLES lookup

\* a call of a conversion on its own: the string it is given (text) and what
\* it returned once it was called (value, a sequence of length 0 or 1)
VARIABLES text, value

conversion_vars == <<text, value>>

vars == <<extract_date_time, tiplocs, schedules, bundle, errors, record_idx,
          prior, records, before, last, parser_vars, lookup, conversion_vars>>

Database ==
    [extract_date_time |-> extract_date_time,
     tiplocs |-> tiplocs,
     schedules |-> schedules]

NoRecord == [kind |-> "--"]

\* the start of a call on the database db that the feed left
InitCall(feed, db) ==
    /\ prior = feed
    /\ extract_date_time = db.extract_date_time
    /\ tiplocs = db.tiplocs
    /\ schedules = db.schedules
    /\ bundle = <<>>
    /\ errors = <<>>
    /\ record_idx = 0
    /\ records = <<>>
    /\ before = db
    /\ last = [record |-> NoRecord, submit |-> FALSE, bundle |-> <<>>, err |-> <<>>]
    /\ lookup = <<>>

\* the start of a call of parse_cif on the byte source given
InitParse(source) ==
    /\ content = source
    /\ content_reader = source
    /\ file = <<>>
    /\ line = 1
    /\ result = <<>>

\* no conversion is called on its own
NoConversion == text = <<>> /\ value = <<>>

\* no byte source is parsed in a call of apply_records
InitFrom(feeds) ==
    /\ \E feed \in feeds : InitCall(feed, ApplyRecords(NewDatabase, feed).db)
    /\ InitParse(<<>>)
    /\ NoConversion

\* one iteration of the for loop of apply_records, on the next record
Consume(record) ==
    LET st == [db |-> Database, bundle |-> bundle, errors |-> errors,
               record_idx |-> record_idx]
    IN  /\ record_idx < MaxRecords
        /\ \E next \in {LoopBody(st, record)} :
            /\ extract_date_time' = next.db.extract_date_time
            /\ tiplocs' = next.db.tiplocs
            /\ schedules' = next.db.schedules
            /\ bundle' = next.bundle
            /\ errors' = next.errors
            /\ record_idx' = next.record_idx
            /\ records' = Append(records, record)
            /\ before' = Database
            /\ last' = [record |-> record,
                        submit |-> Submit(record),
                        bundle |-> Append(bundle, record),
                        err |-> IF Len(next.errors) > Len(errors)
                                THEN <<next.errors[Len(next.errors)][2]>>
                                ELSE <<>>]
            /\ lookup' = <<>>
            /\ UNCHANGED <<prior, parser_vars, conversion_vars>>

ConsumeHeader(feed) == \E record \in feed.HD : Consume(record)

ConsumeTIPLOCInsert(feed) == \E record \in feed.TI : Consume(record)

ConsumeTIPLOCAmend(feed) == \E record \in feed.TA : Consume(record)

ConsumeTIPLOCDelete(feed) == \E record \in feed.TD : Consume(record)

ConsumeAssociation(feed) == \E record \in feed.AA : Consume(record)

ConsumeBasicSchedule(feed) == \E record \in feed.BS : Consume(record)

ConsumeBasicScheduleExtended(feed) == \E record \in feed.BX : Consume(record)

ConsumeLocationOrigin(feed) == \E record \in feed.LO : Consume(record)

ConsumeLocationIntermediate(feed) == \E record \in feed.LI : Consume(record)

ConsumeChangeEnRoute(feed) == \E record \in feed.CR : Consume(record)

ConsumeLocationTerminate(feed) == \E record \in feed.LT : Consume(record)

ConsumeTrailer(feed) == \E record \in feed.ZZ : Consume(record)

\* one iteration of the loop of parse_cif, while the call has not returned
ParseRow ==
    /\ result = <<>>
    /\ \E next \in {ParseLoopBody([content_reader |-> content_reader, file |-> file,
                                    line |-> line, result |-> result])} :
        /\ content_reader' = next.content_reader
        /\ file' = next.file
        /\ line' = next.line
        /\ result' = next.result
    /\ UNCHANGED <<content, extract_date_time, tiplocs, schedules, bundle, errors,
                   record_idx, prior, records, before, last, lookup, conversion_vars>>

\* a query of the database between two calls that change it (the query
\* borrows the database, so it runs in no call of apply_records; the state
\* after a record is the state a call ending with that record returns in)
GetCrsFromTiploc ==
    /\ bundle = <<>>
    /\ \E code \in Codes :
        \E crs \in get_crs_from_tiploc(tiplocs, code) :
            lookup' = <<[code |-> code, crs |-> crs]>>
    /\ UNCHANGED <<extract_date_time, tiplocs, schedules, bundle, errors, record_idx,
                   prior, records, before, last, parser_vars, conversion_vars>>

\* s.parse::<JourneyTime>() on the string given
ParseJourneyTime ==
    /\ value = <<>>
    /\ value' = <<JourneyTimeFromStr(text)>>
    /\ UNCHANGED <<extract_date_time, tiplocs, schedules, bundle, errors, record_idx,
                   prior, records, before, last, parser_vars, lookup, text>>

\* bs_record_to_schedule on a new Schedule and a BS record with the days_run
\* given
ResolveDaysRun ==
    /\ value = <<>>
    /\ value' = <<BsRecordToSchedule(NewSchedule, Trim(BsNew.train_uid),
                                     [BsNew EXCEPT !.days_run = text])>>
    /\ UNCHANGED <<extract_date_time, tiplocs, schedules, bundle, errors, record_idx,
                   prior, records, before, last, parser_vars, lookup, text>>

\* bs_record_to_schedule on a new Schedule and the BS record given
ResolveBasicSchedule ==
    /\ value = <<>>
    /\ value' = <<BsRecordToSchedule(NewSchedule, Trim(text.train_uid), text)>>
    /\ UNCHANGED <<extract_date_time, tiplocs, schedules, bundle, errors, record_idx,
                   prior, records, before, last, parser_vars, lookup, text>>

\* a call of apply_records on a feed of schedules
Init == InitFrom(PriorFeeds)

Next ==
    \/ ConsumeBasicSchedule(ScheduleFeed)
    \/ ConsumeBasicScheduleExtended(ScheduleFeed)
    \/ ConsumeLocationOrigin(ScheduleFeed)
    \/ ConsumeLocationIntermediate(ScheduleFeed)
    \/ ConsumeChangeEnRoute(ScheduleFeed)
    \/ ConsumeLocationTerminate(ScheduleFeed)

Spec == Init /\ [][Next]_vars

\* a call of apply_records on a feed of locations
InitTiploc == InitFrom(PriorFeedsFull)

NextTiploc ==
    \/ ConsumeHeader(TiplocFeed)
    \/ ConsumeTIPLOCInsert(TiplocFeed)
    \/ ConsumeTIPLOCAmend(TiplocFeed)
    \/ ConsumeTIPLOCDelete(TiplocFeed)
    \/ ConsumeAssociation(TiplocFeed)
    \/ ConsumeTrailer(TiplocFeed)

SpecTiploc == InitTiploc /\ [][NextTiploc]_vars

\* a call of apply_records on a feed with headers in and between bundles
InitHeader == InitFrom(PriorFeedsFull)

NextHeader ==
    \/ ConsumeHeader(HeaderFeed)
    \/ ConsumeTIPLOCInsert(HeaderFeed)
    \/ ConsumeBasicSchedule(HeaderFeed)
    \/ ConsumeLocationOrigin(HeaderFeed)
    \/ ConsumeLocationTerminate(HeaderFeed)
    \/ ConsumeTrailer(HeaderFeed)

SpecHeader == InitHeader /\ [][NextHeader]_vars

\* a call of parse_cif on a byte source
InitParser ==
    /\ InitCall(<<>>, NewDatabase)
    /\ \E source \in Sources : InitParse(source)
    /\ NoConversion

NextParser == ParseRow

SpecParser == InitParser /\ [][NextParser]_vars

\* queries of the TIPLOCs of a database that TI, TA and TD records change
InitCrs == InitFrom(PriorFeedsFull)

NextCrs ==
    \/ ConsumeTIPLOCInsert(CrsFeed)
    \/ ConsumeTIPLOCAmend(CrsFeed)
    \/ ConsumeTIPLOCDelete(CrsFeed)
    \/ GetCrsFromTiploc

SpecCrs == InitCrs /\ [][NextCrs]_vars

\* a call of apply_records on a feed of journeys
InitJourney == InitFrom(PriorFeeds)

NextJourney ==
    \/ ConsumeBasicSchedule(JourneyFeed)
    \/ ConsumeLocationOrigin(JourneyFeed)
    \/ ConsumeLocationIntermediate(JourneyFeed)
    \/ ConsumeLocationTerminate(JourneyFeed)

SpecJourney == InitJourney /\ [][NextJourney]_vars

\* a call of a conversion on the string given, outside any other call
InitConversion(texts) ==
    /\ InitCall(<<>>, NewDatabase)
    /\ InitParse(<<>>)
    /\ text \in texts
    /\ value = <<>>

\* JourneyTime::from_str on a time field
InitJourneyTime == InitConversion(TimeTexts)

NextJourneyTime == ParseJourneyTime

SpecJourneyTime == InitJourneyTime /\ [][NextJourneyTime]_vars

\* the days_run of a BS record resolved by bs_record_to_schedule
InitDaysRun == InitConversion(DaysRunTexts)

NextDaysRun == ResolveDaysRun

SpecDaysRun == InitDaysRun /\ [][NextDaysRun]_vars

\* a call of apply_records on a feed of BS records with blank codes and
\* codes outside the tables, the uid being in the database
InitCodes == InitFrom({FeedNewSchedule})

NextCodes ==
    \/ ConsumeBasicSchedule(CodeFeed)
    \/ ConsumeLocationTerminate(CodeFeed)

SpecCodes == InitCodes /\ [][NextCodes]_vars

\* a call of apply_records on a feed of locations and schedules together
InitMixed == InitFrom(PriorFeedsFull)

NextMixed ==
    \/ ConsumeTIPLOCInsert(MixedFeed)
    \/ ConsumeTIPLOCAmend(MixedFeed)
    \/ ConsumeTIPLOCDelete(MixedFeed)
    \/ ConsumeAssociation(MixedFeed)
    \/ ConsumeBasicSchedule(MixedFeed)
    \/ ConsumeLocationTerminate(MixedFeed)
    \/ ConsumeTrailer(MixedFeed)

SpecMixed == InitMixed /\ [][NextMixed]_vars

\* a call of apply_records that follows another, on a feed of records that
\* end bundles and of records that do not
InitSplit == InitFrom(PriorFeeds)

NextSplit ==
    \/ ConsumeHeader(SplitFeed)
    \/ ConsumeTIPLOCInsert(SplitFeed)
    \/ ConsumeBasicSchedule(SplitFeed)
    \/ ConsumeLocationOrigin(SplitFeed)
    \/ ConsumeLocationTerminate(SplitFeed)

SpecSplit == InitSplit /\ [][NextSplit]_vars

\* the timing load of a BS record resolved by bs_record_to_schedule
InitTimingLoad == InitConversion(TimingLoadRecords)

NextTimingLoad == ResolveBasicSchedule

SpecTimingLoad == InitTimingLoad /\ [][NextTimingLoad]_vars

(***************************************************************************)
(* Properties.  They read the history: what the last iteration submitted   *)
(* (last), the database it started from (before), the records of the call  *)
(* (records) and the feed applied before the call (prior).                 *)
(***************************************************************************)
\* the last record was submitted alone: apply_single_record ran on it
Singleton == last.submit /\ Len(last.bundle) = 1

\* the last record closed a bundle: apply_record_bundle ran on last.bundle
Bundled == last.submit /\ Len(last.bundle) > 1

\* the place of the LO in a bundle: after the BS and the BX if there is one
OriginPlace(b) == IF b[2].kind = "BX" THEN 3 ELSE 2

\* BS (new or revise, no cancellation), optional BX, one LO, LI/CR, one LT,
\* every field valid
WellFormedBundle(b, transaction_type) ==
    /\ Len(b) >= 3
    /\ b[1].kind = "BS"
    /\ b[1].transaction_type = transaction_type
    /\ b[1].stp_indicator # "C"
    /\ OriginPlace(b) < Len(b)
    /\ b[OriginPlace(b)].kind = "LO"
    /\ b[Len(b)].kind = "LT"
    /\ \A i \in (OriginPlace(b) + 1)..(Len(b) - 1) : b[i].kind \in {"LI", "CR"}
    /\ BundleSchedule(NewSchedule, b).ok

\* the Schedule the last bundle resolves to
BundledSchedule == BundleSchedule(NewSchedule, last.bundle).val

\* the last record is a cancellation that was submitted alone
CancellationAlone ==
    /\ Singleton
    /\ last.record.kind = "BS"
    /\ last.record.stp_indicator = "C"
    /\ last.record.transaction_type # "D"

\* the last record is a delete that was submitted alone
DeleteAlone ==
    /\ Singleton
    /\ last.record.kind = "BS"
    /\ last.record.transaction_type = "D"

\* the two maps agree on every key outside keys
SameOutside(after, old, keys) ==
    /\ DOMAIN after \ keys = DOMAIN old \ keys
    /\ \A k \in DOMAIN old \ keys : after[k] = old[k]

\* C1: a well-formed, valid bundle whose BS is new (and no cancellation)
\* appends its Schedule as the last element of schedules[uid]: the list is
\* that Schedule alone when uid was absent, the old list with the Schedule
\* appended otherwise.
C1_NewBundleAppends ==
    (Bundled /\ WellFormedBundle(last.bundle, "N")) =>
        /\ BundledSchedule.train_uid \in DOMAIN schedules
        /\ schedules[BundledSchedule.train_uid] =
            IF BundledSchedule.train_uid \in DOMAIN before.schedules
            THEN Append(before.schedules[BundledSchedule.train_uid], BundledSchedule)
            ELSE <<BundledSchedule>>

\* C2: a well-formed, valid bundle whose BS is a revise leaves schedules[uid]
\* present with the Schedule of the bundle as its last element, whether uid
\* was present or absent before.
C2_ReviseBundleAppends ==
    (Bundled /\ WellFormedBundle(last.bundle, "R")) =>
        /\ BundledSchedule.train_uid \in DOMAIN schedules
        /\ schedules[BundledSchedule.train_uid] # <<>>
        /\ schedules[BundledSchedule.train_uid]
               [Len(schedules[BundledSchedule.train_uid])] = BundledSchedule
        /\ BundledSchedule.train_uid \in DOMAIN before.schedules =>
               schedules[BundledSchedule.train_uid] =
                   Append(before.schedules[BundledSchedule.train_uid], BundledSchedule)

\* every record applied to the database so far, this call's last one left out
AppliedBefore == prior \o SubSeq(records, 1, Len(records) - 1)

\* the entry a cancellation adds: the window of the BS record, no journey
IsCancellationOf(schedule, record) ==
    /\ schedule.stp_indicator = "STPCancellationOfPermanentAssociation"
    /\ <<schedule.runs_from>> = ParseDateYMD(record.date_runs_from)
    /\ <<schedule.runs_to>> = ParseDateYMD(record.date_runs_to)
    /\ schedule.journey = <<>>

\* schedules[uid] gained one entry, the cancellation of the record
CancellationAdded(uid, record) ==
    /\ uid \in DOMAIN schedules
    /\ Len(schedules[uid]) = Len(before.schedules[uid]) + 1
    /\ SubSeq(schedules[uid], 1, Len(before.schedules[uid])) = before.schedules[uid]
    /\ IsCancellationOf(schedules[uid][Len(schedules[uid])], record)

\* C3: once a new-schedule bundle was applied for uid, a valid cancellation of
\* uid submitted alone adds one entry to schedules[uid], last, with the STP
\* indicator of a cancellation, the window of the BS record and no journey;
\* there are 2 entries when that one bundle is all that came before.
C3_CancellationRegistered ==
    (CancellationAlone /\ last.err = <<>>) =>
        /\ last.record.train_uid \in DOMAIN before.schedules =>
               CancellationAdded(last.record.train_uid, last.record)
        /\ ( /\ WellFormedBundle(AppliedBefore, "N")
             /\ Trim(AppliedBefore[1].train_uid) = last.record.train_uid ) =>
               /\ last.record.train_uid \in DOMAIN schedules
               /\ Len(schedules[last.record.train_uid]) = 2
               /\ IsCancellationOf(schedules[last.record.train_uid][2], last.record)

\* C4: a cancellation submitted alone for a train uid that is no key of
\* schedules leaves schedules as it was: no key created, no Schedule stored.
C4_CancellationOfAbsentUid ==
    (CancellationAlone /\ last.record.train_uid \notin DOMAIN before.schedules) =>
        schedules = before.schedules

C4_Witness ==
    /\ CancellationAlone
    /\ last.err = <<>>
    /\ last.record.train_uid \notin DOMAIN before.schedules
    /\ before.schedules # EmptyMap

\* C5: a delete submitted alone removes schedules[train_uid] whatever was
\* stored under it, leaves every other key as it was and raises no error;
\* for an absent train_uid it changes nothing.
C5_DeleteRemovesUid ==
    DeleteAlone =>
        /\ last.record.train_uid \notin DOMAIN schedules
        /\ SameOutside(schedules, before.schedules, {last.record.train_uid})
        /\ last.err = <<>>
        /\ last.record.train_uid \notin DOMAIN before.schedules =>
               schedules = before.schedules

C5_Witness ==
    /\ DeleteAlone
    /\ last.record.train_uid \in DOMAIN before.schedules
    /\ Len(before.schedules[last.record.train_uid]) = 2
    /\ DOMAIN schedules # {}

\* a Header whose date (DDMMYY) and time (HHMM) are both valid
ValidHeader(record) ==
    /\ record.kind = "HD"
    /\ ParseDateDMY(record.date_of_extract) # <<>>
    /\ ParseTimeHM(record.time_of_extract) # <<>>

ValidHeaders(recs) == SelectSeq(recs, ValidHeader)

\* the date and time a valid Header carries
ExtractOf(record) ==
    [date |-> ParseDateDMY(record.date_of_extract)[1],
     time |-> ParseTimeHM(record.time_of_extract)[1]]

\* C6: after apply_records over the records, extract_date_time is the date
\* and time of the last Header among them whose date and time are valid,
\* whatever records come before it (an open schedule bundle included); after
\* the minimal file HD, ZZ on a new database tiplocs and schedules are empty
\* and extract_date_time is the one of the HD.
C6_LastValidHeader ==
    /\ ValidHeaders(records) # <<>> =>
           extract_date_time =
               ExtractOf(ValidHeaders(records)[Len(ValidHeaders(records))])
    /\ ( /\ prior = <<>>
         /\ Len(records) = 2
         /\ ValidHeader(records[1])
         /\ records[2].kind = "ZZ" ) =>
           /\ tiplocs = EmptyMap
           /\ schedules = EmptyMap
           /\ extract_date_time = ExtractOf(records[1])

\* the last record is a Header that was submitted alone
HeaderAlone == Singleton /\ last.record.kind = "HD"

TiplocOf(key, record) ==
    [tiploc |-> key,
     three_alpha_code |-> Trim(record.three_alpha_code),
     description |-> Trim(record.tps_description)]

\* C8: a TIPLOC Insert is an upsert under the trimmed tiploc: afterwards the
\* key holds the trimmed tiploc, three_alpha_code and description of the
\* record, whatever it held before, and every other key is as it was.
C8_TiplocInsertUpserts ==
    (Singleton /\ last.record.kind = "TI") =>
        /\ Trim(last.record.tiploc) \in DOMAIN tiplocs
        /\ tiplocs[Trim(last.record.tiploc)] =
               TiplocOf(Trim(last.record.tiploc), last.record)
        /\ SameOutside(tiplocs, before.tiplocs, {Trim(last.record.tiploc)})
        /\ last.err = <<>>

C8_Witness ==
    /\ Singleton
    /\ last.record.kind = "TI"
    /\ last.record.tiploc # Trim(last.record.tiploc)
    /\ Trim(last.record.tiploc) \in DOMAIN before.tiplocs
    /\ before.tiplocs[Trim(last.record.tiploc)] # tiplocs[Trim(last.record.tiploc)]
    /\ DOMAIN before.tiplocs # {Trim(last.record.tiploc)}

\* the last record is a TIPLOC Amend that was submitted alone
AmendAlone == Singleton /\ last.record.kind = "TA"

\* what an amendment leaves whether it renames or not: the entry of the
\* record under the new key (the old one when new_tiploc is blank), and
\* every key other than the old and the new one as it was
AmendStored(old, new) ==
    /\ new \in DOMAIN tiplocs
    /\ tiplocs[new] = TiplocOf(new, last.record)
    /\ SameOutside(tiplocs, before.tiplocs, {old, new})

\* C9 as stated: a TIPLOC Amend with a new_tiploc that is not blank removes
\* the key trim(tiploc) and stores the entry under trim(new_tiploc), so that
\* the old key is absent and the new key present; with a blank new_tiploc the
\* entry under trim(tiploc) is updated in place and the other keys are as
\* they were.
C9_AmendMovesKey_AsStated ==
    AmendAlone =>
        IF Trim(last.record.new_tiploc) # <<>>
        THEN /\ Trim(last.record.tiploc) \notin DOMAIN tiplocs
             /\ AmendStored(Trim(last.record.tiploc), Trim(last.record.new_tiploc))
        ELSE AmendStored(Trim(last.record.tiploc), Trim(last.record.tiploc))

\* C9: a TIPLOC Amend with a new_tiploc that is not blank stores the entry
\* under trim(new_tiploc), and the key trim(tiploc) is absent afterwards
\* unless it is the new key itself; with a blank new_tiploc the entry under
\* trim(tiploc) is updated in place; in both cases every key other than the
\* old and the new one is as it was.
C9_AmendMovesKey ==
    AmendAlone =>
        IF Trim(last.record.new_tiploc) # <<>>
        THEN /\ Trim(last.record.tiploc) # Trim(last.record.new_tiploc) =>
                    Trim(last.record.tiploc) \notin DOMAIN tiplocs
             /\ AmendStored(Trim(last.record.tiploc), Trim(last.record.new_tiploc))
        ELSE AmendStored(Trim(last.record.tiploc), Trim(last.record.tiploc))

C9_Witness ==
    /\ AmendAlone
    /\ Trim(last.record.new_tiploc) # <<>>
    /\ Trim(last.record.tiploc) # Trim(last.record.new_tiploc)
    /\ Trim(last.record.tiploc) \in DOMAIN before.tiplocs
    /\ Trim(last.record.new_tiploc) \in DOMAIN tiplocs

\* C10: a TIPLOC Delete removes the entry under the trimmed tiploc, raises
\* no error and changes nothing when the key is missing; so TI(a),
\* TA(a, new_tiploc = b), TD(b) on a new database leave a present after the
\* first step, b alone after the second and tiplocs empty after the third.
C10_TiplocDeleteRemoves ==
    /\ (Singleton /\ last.record.kind = "TD") =>
           /\ Trim(last.record.tiploc) \notin DOMAIN tiplocs
           /\ SameOutside(tiplocs, before.tiplocs, {Trim(last.record.tiploc)})
           /\ last.err = <<>>
           /\ Trim(last.record.tiploc) \notin DOMAIN before.tiplocs =>
                  tiplocs = before.tiplocs
    /\ (prior = <<>> /\ records = <<TiWaterloo>>) =>
           DOMAIN tiplocs = {Trim(TiplocWATRLMN)}
    /\ (prior = <<>> /\ records = <<TiWaterloo, TaRename>>) =>
           DOMAIN tiplocs = {Trim(TiplocCLPHMJ)}
    /\ (prior = <<>> /\ records = <<TiWaterloo, TaRename, TdClapham>>) =>
           tiplocs = EmptyMap

C10_Witness ==
    /\ prior = <<>>
    /\ records = <<TiWaterloo, TaRename, TdClapham>>
    /\ before.tiplocs # EmptyMap
    /\ last.record.tiploc # Trim(last.record.tiploc)

\* the place of the last record before the last one that was submitted, 0
\* when there is none: the bundle of the last record starts after it
PreviousSubmit(recs) ==
    IF \E j \in 1..(Len(recs) - 1) : Submit(recs[j])
    THEN CHOOSE j \in 1..(Len(recs) - 1) :
             /\ Submit(recs[j])
             /\ \A k \in (j + 1)..(Len(recs) - 1) : ~Submit(recs[k])
    ELSE 0

\* the records since the previous submission, whether it failed or not
BundleSince(recs) == SubSeq(recs, PreviousSubmit(recs) + 1, Len(recs))

C12_ErrorIndices ==
    /\ \A i \in 1..Len(errors) :
           /\ errors[i][1] \in 0..(Len(records) - 1)
           /\ Submit(records[errors[i][1] + 1])
           /\ \A j \in (i + 1)..Len(errors) : errors[i][1] < errors[j][1]
    /\ last.err # <<>> =>
           /\ last.submit
           /\ errors # <<>>
           /\ errors[Len(errors)] = <<Len(records) - 1, last.err[1]>>
    /\ (records # <<>> /\ last.err = <<>>) =>
           \A i \in 1..Len(errors) : errors[i][1] < Len(records) - 1

\* two failures, the first of a bundle of three records
C12_Witness ==
    /\ Len(errors) = 2
    /\ errors[1][1] = 2
    /\ ~Submit(records[1])
    /\ ~Submit(records[2])
    /\ errors[2][1] = 3

\* a TIPLOC as stored: seven characters at most, none of them a trailing space
StoredTiplocOk(tiploc) == Len(tiploc) <= 7 /\ TrimEnd(tiploc) = tiploc

\* C13: in every database state, every key of tiplocs and the tiploc of every
\* JourneyLocation of every stored Schedule has seven characters at most and
\* no trailing space, also when the 8-character location of an LO, LI or LT
\* record has a suffix in its 8th column.
C13_StoredTiplocsTrimmed ==
    /\ \A key \in DOMAIN tiplocs : StoredTiplocOk(key)
    /\ \A uid \in DOMAIN schedules :
           \A i \in 1..Len(schedules[uid]) :
               \A j \in 1..Len(schedules[uid][i].journey) :
                   StoredTiplocOk(schedules[uid][i].journey[j].tiploc)

\* the number of Schedules of the list whose STP indicator is permanent
Permanents(list) ==
    Len(SelectSeq(list, LAMBDA s : s.stp_indicator = "PermanentAssociation"))

\* the list of a uid in a map of schedules, empty when uid is no key
ListOf(map, uid) == IF uid \in DOMAIN map THEN map[uid] ELSE <<>>

\* C14 as stated: in every database state there is one permanent Schedule at
\* most under a train uid; only cancellations add further entries.
C14_OnePermanent_AsStated ==
    \A uid \in DOMAIN schedules : Permanents(schedules[uid]) <= 1

\* C14: a train uid may hold several permanent Schedules: a submission adds
\* one permanent Schedule at most, and only a bundle whose Schedule is
\* permanent adds one, under the uid of that Schedule; a cancellation
\* submitted alone adds none.
C14_OnePermanentPerBundle ==
    \A uid \in DOMAIN schedules :
        /\ Permanents(schedules[uid]) <= Permanents(ListOf(before.schedules, uid)) + 1
        /\ Permanents(schedules[uid]) > Permanents(ListOf(before.schedules, uid)) =>
               /\ Bundled
               /\ last.err = <<>>
               /\ BundledSchedule.stp_indicator = "PermanentAssociation"
               /\ BundledSchedule.train_uid = uid
               /\ schedules[uid] = Append(before.schedules[uid], BundledSchedule)

\* a second permanent Schedule stored under a uid by a well-formed bundle
C14_Witness ==
    /\ Bundled
    /\ WellFormedBundle(last.bundle, "N")
    /\ BundledSchedule.train_uid \in DOMAIN schedules
    /\ Permanents(schedules[BundledSchedule.train_uid]) = 2
    /\ Permanents(before.schedules[BundledSchedule.train_uid]) = 1

\* an entry of a journey as an LO record makes it, and as an LT record does
FromOrigin(entry) ==
    /\ entry.arrival_time = <<>>
    /\ entry.public_arrival = <<>>
    /\ entry.departure_time # <<>>

FromTerminate(entry) ==
    /\ entry.departure_time = <<>>
    /\ entry.public_departure = <<>>
    /\ entry.arrival_time # <<>>

\* C15: every Schedule a bundle adds to the database has a journey that is
\* not empty, begins with the entry of an LO record (no arrival, a
\* departure) and ends with the entry of an LT record (no departure, an
\* arrival).
C15_BundleClosure ==
    ( /\ Bundled
      /\ last.err = <<>>
      /\ ListOf(schedules, BundledSchedule.train_uid) #
             ListOf(before.schedules, BundledSchedule.train_uid) ) =>
        /\ Len(schedules[BundledSchedule.train_uid]) > 0 =>
               /\ schedules[BundledSchedule.train_uid]
                      [Len(schedules[BundledSchedule.train_uid])].journey # <<>>
               /\ FromOrigin(Head(
                      schedules[BundledSchedule.train_uid]
                          [Len(schedules[BundledSchedule.train_uid])].journey))
               /\ FromTerminate(
                      schedules[BundledSchedule.train_uid]
                          [Len(schedules[BundledSchedule.train_uid])].journey
                          [Len(schedules[BundledSchedule.train_uid]
                                   [Len(schedules[BundledSchedule.train_uid])].journey)])

\* the i-th chunk of the byte source, i counted from 1: the bytes
\* [81 * (i - 1), 81 * i)
ChunkAt(i) == SubSeq(content, ChunkLen * (i - 1) + 1, ChunkLen * i)

\* the first two bytes of the i-th chunk
TagAt(i) == Slice(ChunkAt(i), 0, 2)

\* the bytes of the source that were read
BytesRead == Len(content) - Len(content_reader)

\* C16: parse_cif reads its source in consecutive chunks of 81 bytes and has
\* one record for a chunk: record i of the file is the one decoded from the
\* i-th chunk; it stops at the first chunk whose tag is ZZ: the file it
\* returns ends with the Trailer of that chunk, no chunk before it has the
\* tag ZZ, and no byte after that chunk is read.
C16_OneRecordPerChunk ==
    /\ \A i \in 1..Len(file) :
           /\ ChunkLen * i <= Len(content)
           /\ Lookup(RecordTypeTable, TagAt(i)) # <<>>
           /\ Ok(file[i]) = ParseKnownRecord(Lookup(RecordTypeTable, TagAt(i))[1],
                                             Slice(ChunkAt(i), 0, 80))
    /\ result = <<>> =>
           /\ BytesRead = ChunkLen * Len(file)
           /\ line = Len(file) + 1
           /\ \A i \in 1..Len(file) : TagAt(i) # <<"Z", "Z">>
    /\ (result # <<>> /\ result[1].ok) =>
           /\ result[1].val = file
           /\ file # <<>>
           /\ file[Len(file)] = Trailer
           /\ TagAt(Len(file)) = <<"Z", "Z">>
           /\ \A i \in 1..(Len(file) - 1) : TagAt(i) # <<"Z", "Z">>
           /\ BytesRead = ChunkLen * Len(file)
           /\ content_reader = SubSeq(content, ChunkLen * Len(file) + 1, Len(content))

\* a file of three records returned with bytes left unread after the ZZ row
C16_Witness ==
    /\ result # <<>>
    /\ result[1].ok
    /\ Len(file) = 3
    /\ file[1].kind = "HD"
    /\ file[2].kind = "TI"
    /\ content_reader # <<>>

\* the source ends before the chunk after the records of the file is full,
\* and no ZZ row was decoded
EndsEarly ==
    /\ Len(content) - ChunkLen * Len(file) < ChunkLen
    /\ file # <<>> => TagAt(Len(file)) # <<"Z", "Z">>

\* the error itself, without the line it may be tagged with
InnerError(e) == IF e.variant = "AtLine" THEN e.payload.inner ELSE e

\* C17: when the byte source ends before a full chunk of 81 bytes can be
\* read and no ZZ row was decoded before (an empty source, a short last row,
\* a ZZ row without its new line, no ZZ row at all), parse_cif returns a Read
\* error and no file.
C17_ShortReadIsReadError ==
    (result # <<>> /\ EndsEarly) =>
        /\ ~result[1].ok
        /\ InnerError(result[1].err).variant = "Read"
        /\ content_reader = <<>>

\* a Read error after two decoded rows, on a ZZ row without its new line
C17_Witness ==
    /\ result # <<>>
    /\ EndsEarly
    /\ Len(file) = 2
    /\ Len(content) = ChunkLen * 2 + 80
    /\ SubSeq(content, ChunkLen * 2 + 1, ChunkLen * 2 + 2) = <<"Z", "Z">>

\* C18: the kind of every record of the file parse_cif returns is the first
\* two bytes of the row it was decoded from.
C18_KindIsTag ==
    \A i \in 1..Len(file) : Lookup(RecordTypeTable, TagAt(i)) = <<file[i].kind>>

\* C19: every error parse_cif returns for a malformed row n (counted from 1)
\* is AtLine(n, inner): for a record type that is not known (inner
\* InvalidRecordType(tag)), for a field that cannot be parsed and for a
\* source that ends early (inner Read).
C19_ErrorsAtLine ==
    (result # <<>> /\ ~result[1].ok) =>
        /\ result[1].err.variant = "AtLine"
        /\ result[1].err.payload.line = Len(file) + 1
        /\ EndsEarly => result[1].err.payload.inner.variant = "Read"
        /\ (~EndsEarly /\ Lookup(RecordTypeTable, TagAt(Len(file) + 1)) = <<>>) =>
               result[1].err.payload.inner =
                   Err("InvalidRecordType", TagAt(Len(file) + 1)).err

\* the prefixes of the code that are TIPLOC keys, the code itself included
KeyPrefixes(code) ==
    {SubSeq(code, 1, n) : n \in 0..Len(code)} \cap DOMAIN tiplocs

\* the longest of them
LongestKeyPrefix(code) ==
    CHOOSE key \in KeyPrefixes(code) : \A other \in KeyPrefixes(code) : Len(other) <= Len(key)

\* WATRLMN -> WAT and CLPHMJ -> CLJ are loaded, and CLPHMJ1 is no key
WaterlooAndClaphamLoaded ==
    /\ TiplocWATRLMN \in DOMAIN tiplocs
    /\ tiplocs[TiplocWATRLMN].three_alpha_code = <<"W", "A", "T">>
    /\ Trim(TiplocCLPHMJ) \in DOMAIN tiplocs
    /\ tiplocs[Trim(TiplocCLPHMJ)].three_alpha_code = <<"C", "L", "J">>
    /\ <<"C", "L", "P", "H", "M", "J", "1">> \notin DOMAIN tiplocs

\* C20: get_crs_from_tiploc(code) returns the CRS code of the TIPLOC whose
\* key is the code when there is one, and otherwise that of the TIPLOC whose
\* key is the longest prefix of the code, alone in a set when it is not
\* empty; it returns the empty set when no prefix of the code is a key.  With
\* WATRLMN -> WAT and CLPHMJ -> CLJ loaded, CLPHMJ1 and CLPHMJW give {CLJ}
\* and WATRLMN gives {WAT}.
C20_CrsFromTiploc ==
    lookup # <<>> =>
        /\ KeyPrefixes(lookup[1].code) = {} => lookup[1].crs = {}
        /\ (/\ KeyPrefixes(lookup[1].code) # {}
            /\ tiplocs[LongestKeyPrefix(lookup[1].code)].three_alpha_code # <<>>) =>
               lookup[1].crs =
                   {tiplocs[LongestKeyPrefix(lookup[1].code)].three_alpha_code}
        /\ (WaterlooAndClaphamLoaded /\ lookup[1].code = TiplocWATRLMN) =>
               lookup[1].crs = {<<"W", "A", "T">>}
        /\ (/\ WaterlooAndClaphamLoaded
            /\ lookup[1].code \in {<<"C", "L", "P", "H", "M", "J", "1">>,
                                   <<"C", "L", "P", "H", "M", "J", "W">>}) =>
               lookup[1].crs = {<<"C", "L", "J">>}

\* CLPHMJ1 asked for with WATRLMN and CLPHMJ loaded: CLJ is returned
C20_Witness ==
    /\ lookup # <<>>
    /\ WaterlooAndClaphamLoaded
    /\ lookup[1].code = <<"C", "L", "P", "H", "M", "J", "1">>
    /\ lookup[1].crs = {<<"C", "L", "J">>}

\* C21: whenever applying a singleton or a bundle yields an error, the
\* database is left as it was before that singleton or bundle: tiplocs,
\* schedules and extract_date_time are unchanged, also for a Header with
\* update_indicator 'F' whose date or time of extract is invalid.
C21_ErrorLeavesDatabase ==
    last.err # <<>> =>
        /\ tiplocs = before.tiplocs
        /\ schedules = before.schedules
        /\ extract_date_time = before.extract_date_time

\* the bundle being collected was opened by a BS that is not submitted alone
BundleOpen(b) == b # <<>> /\ b[1].kind = "BS" /\ ~Submit(b[1])

\* the last record went into an open bundle and did not submit it
AddedToBundle ==
    /\ ~last.submit
    /\ Len(last.bundle) > 1
    /\ BundleOpen(last.bundle)
    /\ last.record.kind \in {"BX", "LO", "LI", "CR"}

\* the Schedule of the last bundle is the last of the list of its uid, which
\* is one longer than it was
ScheduleAppeared ==
    /\ BundledSchedule.train_uid \in DOMAIN schedules
    /\ schedules[BundledSchedule.train_uid] # <<>>
    /\ schedules[BundledSchedule.train_uid][Len(schedules[BundledSchedule.train_uid])] =
           BundledSchedule
    /\ Len(schedules[BundledSchedule.train_uid]) =
           IF BundledSchedule.train_uid \in DOMAIN before.schedules
           THEN Len(before.schedules[BundledSchedule.train_uid]) + 1
           ELSE 1

\* C22: a schedule bundle is applied as a whole, and only when its LT is
\* consumed: a BX, LO, LI or CR consumed between a BS that opens a bundle and
\* the LT leaves the database as it was (so nothing of the bundle is stored
\* when the input ends before the LT), and the step that consumes the LT of
\* a well-formed bundle makes its whole Schedule appear in schedules.
C22_BundleAtomicAtLT ==
    /\ AddedToBundle => (Database = before /\ last.err = <<>>)
    /\ (Bundled /\ (WellFormedBundle(last.bundle, "N") \/ WellFormedBundle(last.bundle, "R"))) =>
           /\ last.record.kind = "LT"
           /\ last.err = <<>>
           /\ ScheduleAppeared
           /\ SameOutside(schedules, before.schedules, {BundledSchedule.train_uid})
           /\ tiplocs = before.tiplocs
           /\ extract_date_time = before.extract_date_time

\* the kinds of record that belong inside a schedule bundle
InBundleKinds == {"BX", "LO", "LI", "CR", "LT"}

\* the bundle without the records of these kinds it begins with: they came
\* when no bundle was open
RECURSIVE DropStrays(_)
DropStrays(b) ==
    IF b # <<>> /\ Head(b).kind \in InBundleKinds THEN DropStrays(Tail(b)) ELSE b

\* the errors returned, without their indices
ErrorValues(errs) == [i \in 1..Len(errs) |-> errs[i][2]]

\* the last record came after a BX, LO, LI, CR or LT that no BS preceded
AfterStray == records # <<>> /\ last.bundle[1].kind \in InBundleKinds

\* C23: a BX, LO, LI, CR or LT that does not follow a BS opening a bundle is
\* ignored: it changes nothing in the database, gives no error, and the
\* records after it are handled as if it were not in the input: the database
\* and the error of the step are those of the same records without it.
C23_StrayIgnored ==
    AfterStray =>
        /\ Database = ApplyRecords(before, DropStrays(last.bundle)).db
        /\ last.err = ErrorValues(ApplyRecords(before, DropStrays(last.bundle)).errors)

\* the last record came while a bundle was open and is none of the records
\* a bundle is made of: an HD, TI, TA, TD, AA, ZZ or a BS submitted alone
InterruptedBundle ==
    /\ last.submit
    /\ Len(last.bundle) > 1
    /\ BundleOpen(last.bundle)
    /\ last.record.kind \notin InBundleKinds

\* C24: while a schedule bundle is open, an HD, TI, TA, TD, AA, ZZ or a
\* delete or cancellation BS is ignored and does not flush the bundle: the
\* step stores no Schedule (none that lacks the entry of an LT), changes
\* nothing else in the database and gives no error.
C24_OpenBundleNotFlushed ==
    InterruptedBundle =>
        /\ schedules = before.schedules
        /\ tiplocs = before.tiplocs
        /\ extract_date_time = before.extract_date_time
        /\ last.err = <<>>

\* a BS that opens a bundle
StartsBundle(record) == record.kind = "BS" /\ ~Submit(record)

\* the place of the last BS of the bundle that opens a bundle
LastStart(b) ==
    CHOOSE i \in 1..Len(b) :
        /\ StartsBundle(b[i])
        /\ \A j \in (i + 1)..Len(b) : ~StartsBundle(b[j])

\* the bundle from that BS on
LaterBundle(b) == SubSeq(b, LastStart(b), Len(b))

\* an LT closed a bundle in which a second BS came before the LT of the first,
\* and the Schedule of the bundle was stored
RestartedBundleStored ==
    /\ Bundled
    /\ last.record.kind = "LT"
    /\ last.err = <<>>
    /\ BundleOpen(last.bundle)
    /\ LastStart(last.bundle) > 1
    /\ BundledSchedule.train_uid \in DOMAIN before.schedules

\* C25: when a BS that opens a bundle arrives while an earlier bundle is
\* still open, what was collected of the earlier bundle is discarded: the
\* Schedule stored at the LT of the later bundle is the one of the later BS
\* and the records after it; its journey, operating_characteristics and
\* catering hold nothing of the earlier records.
C25_EarlierBundleDiscarded ==
    RestartedBundleStored =>
        /\ BundleSchedule(NewSchedule, LaterBundle(last.bundle)).ok
        /\ schedules[BundledSchedule.train_uid] =
               Append(before.schedules[BundledSchedule.train_uid],
                      BundleSchedule(NewSchedule, LaterBundle(last.bundle)).val)

\* the bundle without its CR records
WithoutCR(b) == SelectSeq(b, LAMBDA r : r.kind # "CR")

\* the LO, LI and LT records of the bundle, in order
LocationRecords(b) == SelectSeq(b, LAMBDA r : r.kind \in {"LO", "LI", "LT"})

\* the journey entry of a location record
EntryOf(record) ==
    CASE record.kind = "LO" -> LocationOriginEntry(record).val
      [] record.kind = "LI" -> LocationIntermediateEntry(record).val
      [] record.kind = "LT" -> LocationTerminateEntry(record).val

\* a bundle opened by a BS and holding a CR was applied without error
BundleWithCR ==
    /\ Bundled
    /\ last.err = <<>>
    /\ BundleOpen(last.bundle)
    /\ \E i \in 1..Len(last.bundle) : last.bundle[i].kind = "CR"

\* C26: a CR record inside a schedule bundle is not applied to the Schedule:
\* the database after the bundle is the one the same bundle without its CR
\* records gives, and the journey of the Schedule has one entry for each LO,
\* LI and LT of the bundle, in the order of these records.
C26_ChangeEnRouteNotApplied ==
    BundleWithCR =>
        /\ BundleSchedule(NewSchedule, WithoutCR(last.bundle)) = Ok(BundledSchedule)
        /\ Database = ApplyRecordBundle(before, WithoutCR(last.bundle)).db
        /\ BundledSchedule.train_uid \in DOMAIN before.schedules =>
               schedules[BundledSchedule.train_uid] =
                   Append(before.schedules[BundledSchedule.train_uid], BundledSchedule)
        /\ Len(BundledSchedule.journey) = Len(LocationRecords(last.bundle))
        /\ \A i \in 1..Len(BundledSchedule.journey) :
               BundledSchedule.journey[i] = EntryOf(LocationRecords(last.bundle)[i])

\* BS, LO, CR, LT on a uid that is a key: the Schedule is stored with the
\* entries of the LO and the LT
C26_Witness ==
    /\ BundleWithCR
    /\ WellFormedBundle(last.bundle, "N")
    /\ BundledSchedule.train_uid \in DOMAIN before.schedules
    /\ schedules # before.schedules
    /\ Len(BundledSchedule.journey) = 2
    /\ Len(last.bundle) = 4

\* two decimal digits, and the number they write
TwoDigits(t) == Len(t) = 2 /\ IsDigit(t[1]) /\ IsDigit(t[2])

NumberOf(t) == 10 * DigitVal(t[1]) + DigitVal(t[2])

\* a time field of four or five characters is numeric in its hour and its
\* minute and has 'H', a space or nothing as its fifth character
WellWrittenTime(s) ==
    /\ TwoDigits(Slice(s, 0, 2))
    /\ TwoDigits(Slice(s, 2, 4))
    /\ Len(s) = 5 => s[5] \in {"H", " "}

\* the JourneyTime such a field writes
WrittenTime(s) ==
    [hour |-> NumberOf(Slice(s, 0, 2)),
     minute |-> NumberOf(Slice(s, 2, 4)),
     half |-> Len(s) = 5 /\ s[5] = "H"]

\* C27: JourneyTime parsing of a string of four or five characters takes the
\* hour from the characters 0..2 and the minute from the characters 2..4 as
\* base-10 numbers, sets half exactly when the fifth character is 'H' (not
\* when it is a space or absent), and yields InvalidJourneyTime for any other
\* fifth character and for an hour or a minute that is not numeric.
C27_JourneyTimeParsing ==
    value # <<>> =>
        value[1] = IF WellWrittenTime(text)
                   THEN Ok(WrittenTime(text))
                   ELSE Err("InvalidJourneyTime", text)

\* the times of a journey entry that are present
TimesOf(entry) ==
    {t[1] : t \in {entry.arrival_time, entry.departure_time, entry.passing_time,
                   entry.public_arrival, entry.public_departure} \ {<<>>}}

\* the JourneyTimes of a journey, and of the Schedules of a list
JourneyTimes(journey) == UNION {TimesOf(journey[j]) : j \in 1..Len(journey)}

ListTimes(list) == UNION {JourneyTimes(list[i].journey) : i \in 1..Len(list)}

\* the JourneyTimes of every JourneyLocation of the database
StoredTimes == UNION {ListTimes(schedules[uid]) : uid \in DOMAIN schedules}

\* C28: every JourneyTime stored in a JourneyLocation of the database is a
\* time of the clock, its hour in 0..23 and its minute in 0..59: a location
\* record with a time such as 2460 or 9999 stores no JourneyTime.
C28_StoredTimesOnTheClock ==
    \A t \in StoredTimes : t.hour \in 0..23 /\ t.minute \in 0..59

\* a field of spaces alone
Blank(s) == \A i \in 1..Len(s) : s[i] = " "

\* a time field of an LI as it is to be stored: absent when blank
OptionalWrittenTime(s) == IF Blank(s) THEN <<>> ELSE <<WrittenTime(s)>>

\* the journey entry holds the five time fields of the LI record so
IntermediateStored(entry, record) ==
    /\ entry.arrival_time = OptionalWrittenTime(record.scheduled_arrival_time)
    /\ entry.departure_time = OptionalWrittenTime(record.scheduled_departure_time)
    /\ entry.passing_time = OptionalWrittenTime(record.scheduled_pass)
    /\ entry.public_arrival = OptionalWrittenTime(record.public_arrival_time)
    /\ entry.public_departure = OptionalWrittenTime(record.public_departure_time)

\* C29: each of the five time fields of an LI record (arrival, departure,
\* passing, public arrival, public departure) is stored as absent exactly
\* when the field is blank, and as the time it writes otherwise; a blank time
\* field of an LI never gives InvalidJourneyTime.
C29_IntermediateTimesOptional ==
    /\ (Bundled /\ last.err = <<>>) =>
           /\ Len(BundledSchedule.journey) = Len(LocationRecords(last.bundle))
           /\ \A i \in 1..Len(LocationRecords(last.bundle)) :
                  LocationRecords(last.bundle)[i].kind = "LI" =>
                      IntermediateStored(BundledSchedule.journey[i],
                                         LocationRecords(last.bundle)[i])
           /\ BundledSchedule.train_uid \in DOMAIN before.schedules =>
                  schedules[BundledSchedule.train_uid] =
                      Append(before.schedules[BundledSchedule.train_uid], BundledSchedule)
    /\ (last.err # <<>> /\ last.err[1].variant = "InvalidJourneyTime") =>
           ~Blank(last.err[1].payload)

\* a Schedule stored whose bundle has a passing point (the passing time
\* alone) and an LI with every time field blank
C29_Witness ==
    /\ Bundled
    /\ last.err = <<>>
    /\ Len(last.bundle) = 4
    /\ last.bundle[2] = LiPassing
    /\ last.bundle[3] = LiBlank
    /\ BundledSchedule.train_uid \in DOMAIN before.schedules
    /\ schedules # before.schedules
    /\ BundledSchedule.journey[1].passing_time = <<[hour |-> 10, minute |-> 5, half |-> TRUE]>>
    /\ BundledSchedule.journey[1].arrival_time = <<>>
    /\ BundledSchedule.journey[2].passing_time = <<>>

\* a string of '0' and '1' alone
Binary(s) == \A i \in 1..Len(s) : s[i] \in {"0", "1"}

\* the DaysRun holds the weekday k, Monday being 0 and Sunday 6: Monday is
\* the bit 6 and Sunday the bit 0
HasWeekday(days_run, k) == (days_run \div (2 ^ (6 - k))) % 2 = 1

\* C30: for every days_run field of seven characters '0' and '1' the DaysRun
\* of the Schedule holds the weekday k (Monday 0 to Sunday 6) exactly when
\* the character k is '1' ("1000000" is Monday alone, "0000001" Sunday
\* alone); a field that is not such a string yields InvalidDaysRun.
C30_DaysRunBits ==
    value # <<>> =>
        IF Binary(text)
        THEN /\ value[1].ok
             /\ \A k \in 0..6 : HasWeekday(value[1].val.days_run, k) = (text[k + 1] = "1")
        ELSE value[1] = Err("InvalidDaysRun", text)

\* a code written with decimal digits alone, and the number it writes
Numeric(code) == code # <<>> /\ \A i \in 1..Len(code) : IsDigit(code[i])

\* the code is one of the codes of the table
Listed(table, code) == Lookup(table, code) # <<>>

\* the Schedule was resolved with this timing load
LoadIs(r, variant, n) == r.ok /\ r.val.timing_load = [variant |-> variant, n |-> n]

\* what the timing load code of a field gives for the power type written
\* power (both trimmed), r being the result of bs_record_to_schedule
TimingLoadAsStated(power, code, field, r) ==
    LET dmu == power \in {<<"D", "M", "U">>, <<"D", "E", "M">>}
        emu == power = <<"E", "M", "U">>
        electric == power = <<"E">>
        loco == power \in {<<"D">>, <<"E">>, <<"E", "D">>}
        rest == power \in {<<"H", "S", "T">>, <<"E", "M", "L">>, <<>>}
        listed == \/ dmu /\ Listed(DMUTimingLoadTable, code)
                  \/ emu /\ Listed(EMUTimingLoadTable, code)
                  \/ electric /\ code = <<"3", "2", "5">>
    IN  /\ (dmu \/ emu \/ loco) /\ code = <<>> => LoadIs(r, "NotSpecified", 0)
        /\ dmu /\ code = <<"E">> => LoadIs(r, "Class158168170Or175", 0)
        /\ emu /\ code = <<"E">> => LoadIs(r, "Class458", 0)
        /\ (dmu \/ emu) /\ Numeric(code) /\ ~listed =>
               LoadIs(r, "SpecificClass", RadixValue(code, 10))
        /\ (dmu \/ emu) /\ listed => r.ok /\ r.val.timing_load.variant # "SpecificClass"
        /\ electric /\ code = <<"3", "2", "5">> => LoadIs(r, "Class325ElectricParcelsUnit", 0)
        /\ loco /\ Numeric(code) /\ ~listed =>
               LoadIs(r, "LoadInTonnes", RadixValue(code, 10))
        /\ (dmu \/ emu \/ loco) /\ code # <<>> /\ ~Numeric(code) /\ ~listed =>
               r = Err("InvalidTimingLoad", field)
        /\ rest => LoadIs(r, "NotSpecified", 0)

\* C31: the timing load is resolved from the resolved power type: for DMU and
\* DEM an unlisted numeric code n gives SpecificClass(n) and "E" gives
\* Class158168170Or175; for EMU an unlisted numeric n gives SpecificClass(n)
\* and "E" gives Class458; for Diesel, Electric and ElectroDiesel a numeric n
\* gives LoadInTonnes(n), but "325" gives Class325ElectricParcelsUnit for
\* Electric alone; a blank code gives NotSpecified; a code that is neither
\* blank, numeric nor listed gives InvalidTimingLoad for those power types,
\* and for HST, EMU plus locomotive and no power type the load is
\* NotSpecified.
C31_TimingLoadByPowerType ==
    value # <<>> =>
        TimingLoadAsStated(Trim(text.power_type), Trim(text.timing_load),
                           text.timing_load, value[1])

\* the error of a code c outside the table, if it is
CodeError(table, c, variant, payload) ==
    IF Listed(table, c) THEN {} ELSE {Err(variant, payload).err}

\* the errors of the characters of s that are neither blank nor in the table
CharErrors(table, s, variant) ==
    {Err(variant, <<s[i]>>).err : i \in {j \in 1..Len(s) : s[j] # " " /\ ~Listed(table, s[j])}}

\* the typed errors of the codes of a BS record that are outside the tables
CodeErrors(bs) ==
    CodeError(TrainStatusTable, bs.train_status, "InvalidTrainStatus", <<bs.train_status>>)
    \cup CodeError(TrainCategoryTable, bs.train_category, "InvalidTrainCategory",
                   bs.train_category)
    \cup CodeError(PowerTypeTable, Trim(bs.power_type), "InvalidPowerType", bs.power_type)
    \cup CharErrors(OperatingCharacteristicTable, bs.operating_characteristics,
                    "InvalidOperatingCharacteristic")
    \cup CodeError(SeatingClassTable, bs.seating_class, "InvalidSeatingClass",
                   <<bs.seating_class>>)
    \cup CodeError(SleepersTable, bs.sleepers, "InvalidSleepers", <<bs.sleepers>>)
    \cup CodeError(ReservationsTable, bs.reservations, "InvalidReservations",
                   <<bs.reservations>>)
    \cup CharErrors(CateringTable, bs.catering_code, "InvalidCateringCode")
    \cup CodeError(STPIndicatorTable, bs.stp_indicator, "InvalidSTPIndicator",
                   <<bs.stp_indicator>>)

CodeVariants ==
    {"InvalidTrainStatus", "InvalidTrainCategory", "InvalidPowerType",
     "InvalidOperatingCharacteristic", "InvalidSeatingClass", "InvalidSleepers",
     "InvalidReservations", "InvalidCateringCode", "InvalidSTPIndicator"}

\* the characters of s that are not blank
NotBlank(s) == SelectSeq(s, LAMBDA c : c # " ")

\* the Schedule s holds what the blank codes of the BS record stand for
BlankCodesResolved(bs, s) ==
    /\ bs.train_status = " " => s.train_status = "NotSpecified"
    /\ Blank(bs.train_category) => s.train_category = "NotSpecified"
    /\ Blank(bs.power_type) => s.power_type = "NotSpecified"
    /\ bs.sleepers = " " => s.sleepers = "NotSpecified"
    /\ bs.reservations = " " => s.reservations = "NotSpecified"
    /\ bs.seating_class = " " => s.seating_class = "FirstAndStandard"
    /\ bs.bank_holiday_running \notin {"X", "G"} => s.bank_holiday_running = "RunsNormally"
    /\ Len(s.operating_characteristics) = Len(NotBlank(bs.operating_characteristics))
    /\ Len(s.catering) = Len(NotBlank(bs.catering_code))

\* the BS records of what was submitted, and those with a code outside a table
SubmittedBS == SelectSeq(last.bundle, LAMBDA r : r.kind = "BS")

SubmittedBadBS == SelectSeq(SubmittedBS, LAMBDA r : CodeErrors(r) # {})

\* a Schedule was appended for the BS record, with its blank codes resolved
StoredWithBlanks(bs, uid) ==
    /\ Len(schedules[uid]) = Len(before.schedules[uid]) + 1
    /\ BlankCodesResolved(bs, schedules[uid][Len(schedules[uid])])

\* C32: a BS record, in a bundle or as a cancellation alone, with a code
\* outside the table of the train status, train category, power type,
\* operating characteristics, seating class, sleepers, reservations,
\* catering or STP indicator (which has no blank code) yields the Invalid*
\* error of that code and no Schedule is stored; without such a code there is no such error, and the
\* Schedule stored has NotSpecified for a blank status, category, power
\* type, sleepers and reservations, FirstAndStandard for a blank seating
\* class, RunsNormally for a bank holiday character other than X and G, and
\* nothing for a blank operating characteristic or catering character.
C32_CodesOutsideTables ==
    last.submit /\ SubmittedBS # <<>> =>
        IF SubmittedBadBS # <<>>
        THEN /\ last.err # <<>>
             /\ last.err[1] \in CodeErrors(SubmittedBadBS[1])
             /\ schedules = before.schedules
        ELSE /\ last.err = <<>> \/ last.err[1].variant \notin CodeVariants
             /\ (/\ Len(SubmittedBS) = 1
                 /\ last.err = <<>>
                 /\ Trim(SubmittedBS[1].train_uid) \in DOMAIN before.schedules)
                => StoredWithBlanks(SubmittedBS[1], Trim(SubmittedBS[1].train_uid))

\* a cancellation with blank codes was stored, then a bundle with a catering
\* character outside the table was refused
C32_Witness ==
    /\ last.bundle = <<BsBadCatering, LtRecord>>
    /\ last.err = <<Err("InvalidCateringCode", <<"X">>).err>>
    /\ schedules = before.schedules
    /\ \E i \in 1..Len(schedules[UidC11004]) :
        /\ schedules[UidC11004][i].stp_indicator = "STPCancellationOfPermanentAssociation"
        /\ schedules[UidC11004][i].train_status = "NotSpecified"
        /\ schedules[UidC11004][i].operating_characteristics =
               <<"DOOCoachingStockTrains", "VacuumBraked">>

\* C33: in every state of the database reached by apply_records on TIPLOC
\* Insert, Amend (renaming or not), Delete and Header records, every key k
\* of tiplocs has no space at either end and holds the location whose
\* tiploc is k.
C33_TiplocKeysTrimmed ==
    \A k \in DOMAIN tiplocs : tiplocs[k].tiploc = k /\ Trim(k) = k

\* a rename to a padded code went under the code without the padding
C33_Witness ==
    /\ last.record = TaRename
    /\ TiplocCLPHMJ # Trim(TiplocCLPHMJ)
    /\ Trim(TiplocCLPHMJ) \in DOMAIN tiplocs
    /\ Trim(TiplocCLPHMJ) \notin DOMAIN before.tiplocs
    /\ \E i \in 1..Len(records) : records[i].kind = "HD"
    /\ \E i \in 1..Len(records) : records[i].kind = "TD"

\* C34: in every state of the database reached by apply_records, every
\* Schedule stored under a train uid has that uid as its train_uid, whether
\* a bundle or a cancellation alone added it.
C34_StoredUnderOwnUid ==
    \A uid \in DOMAIN schedules :
        \A i \in 1..Len(schedules[uid]) : schedules[uid][i].train_uid = uid

\* a cancellation alone was added to a list that holds the Schedule of a
\* bundle
C34_Witness ==
    /\ Singleton
    /\ last.record = BsCancel
    /\ UidC11004 \in DOMAIN before.schedules
    /\ Len(schedules[UidC11004]) = Len(before.schedules[UidC11004]) + 1
    /\ \E i \in 1..Len(schedules[UidC11004]) : schedules[UidC11004][i].journey # <<>>
    /\ schedules[UidC11004][Len(schedules[UidC11004])].journey = <<>>

\* C35: in every state of the database reached by apply_records, every key
\* of schedules holds a list that is not empty: a train uid is a key only
\* if at least one Schedule is stored under it.
C35_NoEmptyList ==
    \A uid \in DOMAIN schedules : schedules[uid] # <<>>

\* the records applied to the database so far, the prior feed first
AppliedInput == prior \o records

\* C36: in every state of the database reached by apply_records, every key
\* of schedules is the trimmed train_uid of a BS record of the applied input
\* that starts a bundle; records submitted without a BS record at the head
\* of their bundle (a stray LO or LI followed by an LT, HD or TI) create no
\* entry, not even one under the empty uid.
C36_KeysFromBundleStarts ==
    \A uid \in DOMAIN schedules :
        \E i \in 1..Len(AppliedInput) :
            StartsBundle(AppliedInput[i]) /\ Trim(AppliedInput[i].train_uid) = uid

\* the key under which a bundle whose BS record has the train_uid u stores
\* its Schedule
BundleKey(u) == Trim(u)

\* C37: the three operations derive the key of schedules from the train_uid
\* of the BS record in the same way: for every train_uid u of six
\* characters, spaces at its ends included, a delete with u removes, and a
\* cancellation with u appends to, the list under which a bundle with u
\* stores its Schedule.
C37_SameKeyForAll ==
    /\ DeleteAlone => BundleKey(last.record.train_uid) \notin DOMAIN schedules
    /\ (/\ CancellationAlone
        /\ last.err = <<>>
        /\ BundleKey(last.record.train_uid) \in DOMAIN before.schedules)
       => /\ BundleKey(last.record.train_uid) \in DOMAIN schedules
          /\ Len(schedules[BundleKey(last.record.train_uid)]) =
                 Len(before.schedules[BundleKey(last.record.train_uid)]) + 1

\* the last record was submitted alone and is of one of the kinds
AloneOfKind(kinds) == Singleton /\ last.record.kind \in kinds

\* what was submitted is a bundle of several records headed by a BS record
ScheduleBundle == Bundled /\ last.bundle[1].kind = "BS"

\* C38: each kind of record changes its own part of the database alone: a
\* TI, TA or TD record applied alone leaves schedules and extract_date_time
\* unchanged; a BS delete, a BS cancellation and a schedule bundle leave
\* tiplocs and extract_date_time unchanged; an AA or ZZ record applied alone
\* leaves the whole database unchanged.
C38_OwnPartOnly ==
    /\ AloneOfKind({"TI", "TA", "TD"}) =>
           /\ schedules = before.schedules
           /\ extract_date_time = before.extract_date_time
    /\ (DeleteAlone \/ CancellationAlone \/ ScheduleBundle) =>
           /\ tiplocs = before.tiplocs
           /\ extract_date_time = before.extract_date_time
    /\ AloneOfKind({"AA", "ZZ"}) => Database = before

\* a delete of a location removed it from a database that holds schedules,
\* after a bundle and a cancellation of the same call changed the schedules
\* of a database that holds locations
C38_Witness ==
    /\ AloneOfKind({"TD"})
    /\ tiplocs # before.tiplocs
    /\ \E uid \in DOMAIN schedules : schedules[uid] # <<>>
    /\ Len(records) = 4
    /\ records[2].kind = "LT"
    /\ records[3] = BsCancel
    /\ schedules # ApplyRecords(NewDatabase, prior).db.schedules

\* the call of apply_records that made the database the call started from
PriorCall == ApplyRecords(NewDatabase, prior)

\* the errors of a call with their indices moved by k
Shifted(errs, k) == [i \in 1..Len(errs) |-> <<errs[i][1] + k, errs[i][2]>>]

\* a call on the first k records and then a call on the others (second,
\* made on the database of first) end as the call on them all (whole)
SplitAgrees(first, second, whole, k) ==
    /\ second.db = whole.db
    /\ whole.errors = first.errors \o Shifted(second.errors, k)

\* the records may be split after the first k of them
BundleBoundary(recs, k) == k = 0 \/ Submit(recs[k])

\* the call on the first k records, then the call on the others, against
\* the call on them all
SplitAt(start, recs, whole, k) ==
    \A first \in {ApplyRecords(start, SubSeq(recs, 1, k))} :
        SplitAgrees(first, ApplyRecords(first.db, SubSeq(recs, k + 1, Len(recs))),
                    whole, k)

\* the call on the records consumed, whole, is what the state holds, and
\* every split of it at a bundle boundary agrees with it
SplitsOfCall(start, whole) ==
    /\ whole = [db |-> Database, errors |-> errors]
    /\ \A k \in 0..Len(records) :
           BundleBoundary(records, k) => SplitAt(start, records, whole, k)

\* C39: no bundling state passes from one call of apply_records to the
\* next: for every database and every sequence of records split where the
\* first part is empty or ends with a record that submits its bundle, the
\* call on the first part followed by the call on the second ends in the
\* database of the call on the whole sequence, with the same errors once
\* the indices of the second call are moved by the length of the first
\* part.  This holds of the splits of the records consumed, and of the
\* prior feed followed by the records consumed.
C39_SplitAtBundleBoundary ==
    \A first \in {PriorCall} :
        \A second \in {ApplyRecords(first.db, records)} :
            /\ SplitsOfCall(first.db, second)
            /\ BundleBoundary(prior, Len(prior)) =>
                   SplitAgrees(first, second,
                               ApplyRecords(NewDatabase, prior \o records), Len(prior))

\* a call of four records that can be split after the second, with an error
\* in each part and a database that both parts changed
C39_Witness ==
    /\ Len(records) = 4
    /\ Submit(records[2])
    /\ Len(errors) = 2
    /\ errors[1][1] < 2
    /\ errors[2][1] >= 2
    /\ ApplyRecords(PriorCall.db, SubSeq(records, 1, 2)).db \notin {PriorCall.db, Database}

====
